---- MODULE Spec2Model ----
(***************************************************************************)
(* Bridge route aggregation and risk scoring engine (src/src/tools.js).    *)
(*                                                                         *)
(* JavaScript strings are TLA+ strings; Len, SubSeq and \o act on them     *)
(* character by character.  A JavaScript object is a record, and a         *)
(* property the object does not have is a field the record does not have.  *)
(***************************************************************************)
EXTENDS Integers, Sequences, FiniteSets, TLC

VARIABLES
    allProtocolsCache,  \* the module-level directory cache
    dirRequests,        \* number of requests sent to the protocol-directory endpoint
    pc,                 \* pc[i]: position of getSecurityStats call i and of its caller
    bridgeName,         \* bridgeName[i]: argument of call i
    slug,               \* slug[i]: what getProtocolSlug returned to call i
    tvlRes,             \* tvlRes[i]: settled state of the TVL request of call i
    hacksRes,           \* hacksRes[i]: settled state of the incident request of call i
    security,           \* security[i]: what getSecurityStats returned
    risk,               \* risk[i]: what calculateRiskScore returned or threw
    bo,                 \* the getBridgeOptions call: position, provider routes, result
    boLocals,           \* its arguments, locals, token lookups and route request
    tool,               \* a call of getRoute, getTokenDetails or getSupportedBridges
    graph               \* the agent graph: the node to run next and the messages

vars == <<allProtocolsCache, dirRequests, pc, bridgeName, slug, tvlRes, hacksRes,
          security, risk, bo, boLocals, tool, graph>>

(***************************************************************************)
(* Bounds of the model.                                                    *)
(***************************************************************************)
MaxRoutes == 2       \* routes the provider returns to one comparison
MaxDirRequests == 2  \* no further call is started after this many directory requests
MaxDirLen == 3       \* entries of a protocol directory
MaxHackCount == 2    \* largest recent_hack_count handed to calculateRiskScore
MaxFees == 2         \* fee entries of one route
MaxMessages == 5     \* messages after which the model asks for no more tools
MaxToolCalls == 2    \* tool calls in one message of the model

(***************************************************************************)
(* String primitives of the JavaScript runtime.                            *)
(***************************************************************************)
Pending == [pending |-> TRUE]

\* no tool call is in progress
ToolIdle == [pc |-> "idle"]

\* the agent graph before a run: the entry node, and the user's message
GraphStart == [node |-> "__start__", ran |-> "", messages |-> <<[type |-> "human"]>>]

CharAt(s, i) == SubSeq(s, i, i)

\* String.prototype.includes
Includes(s, t) == \E i \in 0..(Len(s) - Len(t)) : SubSeq(s, i + 1, i + Len(t)) = t

UpperChars == "ABCDEFGHIJKLMNOPQRSTUVWXYZ"
LowerChars == "abcdefghijklmnopqrstuvwxyz"

LowerChar(c) ==
    IF \E k \in 1..Len(UpperChars) : CharAt(UpperChars, k) = c
    THEN CharAt(LowerChars, CHOOSE k \in 1..Len(UpperChars) : CharAt(UpperChars, k) = c)
    ELSE c

UpperChar(c) ==
    IF \E k \in 1..Len(LowerChars) : CharAt(LowerChars, k) = c
    THEN CharAt(UpperChars, CHOOSE k \in 1..Len(LowerChars) : CharAt(LowerChars, k) = c)
    ELSE c

RECURSIVE ToLowerCase(_)
ToLowerCase(s) ==
    IF Len(s) = 0 THEN ""
    ELSE LowerChar(CharAt(s, 1)) \o ToLowerCase(SubSeq(s, 2, Len(s)))

RECURSIVE ToUpperCase(_)
ToUpperCase(s) ==
    IF Len(s) = 0 THEN ""
    ELSE UpperChar(CharAt(s, 1)) \o ToUpperCase(SubSeq(s, 2, Len(s)))

RECURSIVE Trim(_)
Trim(s) ==
    IF Len(s) = 0 THEN ""
    ELSE IF CharAt(s, 1) = " " THEN Trim(SubSeq(s, 2, Len(s)))
    ELSE IF CharAt(s, Len(s)) = " " THEN Trim(SubSeq(s, 1, Len(s) - 1))
    ELSE s

Digits == "0123456789"

IsDigit(c) == \E k \in 1..10 : CharAt(Digits, k) = c

DigitValue(c) == (CHOOSE k \in 1..10 : CharAt(Digits, k) = c) - 1

\* Number -> string conversion of a non-negative integer (template literals)
RECURSIVE IntToString(_)
IntToString(n) ==
    IF n < 10 THEN CharAt(Digits, n + 1)
    ELSE IntToString(n \div 10) \o CharAt(Digits, (n % 10) + 1)

\* Length of the longest run of digits at the start of s
RECURSIVE DigitPrefixLen(_)
DigitPrefixLen(s) ==
    IF Len(s) > 0 /\ IsDigit(CharAt(s, 1))
    THEN 1 + DigitPrefixLen(SubSeq(s, 2, Len(s)))
    ELSE 0

\* Length of the longest run of digits at the end of s
RECURSIVE DigitSuffixLen(_)
DigitSuffixLen(s) ==
    IF Len(s) > 0 /\ IsDigit(CharAt(s, Len(s)))
    THEN 1 + DigitSuffixLen(SubSeq(s, 1, Len(s) - 1))
    ELSE 0

RECURSIVE DigitsValue(_)
DigitsValue(s) ==
    IF Len(s) = 0 THEN 0
    ELSE 10 * DigitsValue(SubSeq(s, 1, Len(s) - 1)) + DigitValue(CharAt(s, Len(s)))

RECURSIVE Pow10(_)
Pow10(k) == IF k = 0 THEN 1 ELSE 10 * Pow10(k - 1)

NaN == [nan |-> TRUE, m |-> 0, scale |-> 0]

\* parseFloat on a string of digits and dots: the longest prefix of the form
\* digits [ "." digits ], as the decimal m / 10^scale; NaN when it has no digit.
ParseFloat(s) ==
    LET ip == DigitPrefixLen(s)
        rest == SubSeq(s, ip + 1, Len(s))
        hasDot == Len(rest) > 0 /\ CharAt(rest, 1) = "."
        fp == IF hasDot THEN DigitPrefixLen(SubSeq(rest, 2, Len(rest))) ELSE 0
    IN  IF ip = 0 /\ fp = 0 THEN NaN
        ELSE [nan |-> FALSE,
              m |-> DigitsValue(SubSeq(s, 1, ip)) * Pow10(fp)
                    + DigitsValue(SubSeq(rest, 2, fp + 1)),
              scale |-> fp]

\* x < n for a parseFloat result x and an integer n; false for NaN
NumLess(x, n) == ~x.nan /\ x.m < n * Pow10(x.scale)

\* s.replace(/[^0-9.]/g, '')
RECURSIVE KeepDigitsAndDots(_)
KeepDigitsAndDots(s) ==
    IF Len(s) = 0 THEN ""
    ELSE (IF IsDigit(CharAt(s, 1)) \/ CharAt(s, 1) = "." THEN CharAt(s, 1) ELSE "")
         \o KeepDigitsAndDots(SubSeq(s, 2, Len(s)))

\* `$${(rawTvl / 1_000_000).toFixed(2)}M` for a non-negative integer rawTvl:
\* toFixed(2) rounds rawTvl / 10^6 to the nearest hundredth.
Hundredths(rawTvl) == (rawTvl + 5000) \div 10000

FixedString(h) ==
    IntToString(h \div 100) \o "." \o IntToString((h % 100) \div 10) \o IntToString(h % 10)

TvlString(h) == "$" \o FixedString(h) \o "M"

FormatTvl(rawTvl) == TvlString(Hundredths(rawTvl))

(***************************************************************************)
(* calculateRiskScore                                                      *)
(***************************************************************************)
Has(obj, f) == f \in DOMAIN obj

Thrown == [thrown |-> "TypeError"]

IsThrown(r) == Has(r, "thrown")

\* Verdict with the CAUTION boundary off by one: a score of exactly 80 is CAUTION
VerdictInclusive(score) ==
    IF score < 40 THEN "DANGER"
    ELSE IF score <= 80 THEN "CAUTION"
    ELSE "SECURE"

\* the verdict thresholds of calculateRiskScore
Verdict(score) ==
    IF score < 40 THEN "DANGER"
    ELSE IF score < 80 THEN "CAUTION"
    ELSE "SECURE"

\* rules.join("; ")
RECURSIVE JoinRules(_)
JoinRules(rules) ==
    IF Len(rules) = 0 THEN ""
    ELSE IF Len(rules) = 1 THEN rules[1]
    ELSE rules[1] \o "; " \o JoinRules(Tail(rules))

\* TvlRule with the low-TVL comparison reversed (tvlNum > 10)
TvlRuleReversed(tvl) ==
    IF tvl = "Unknown"
    THEN [score |-> 100 - 30, rules |-> <<"Penalty: TVL data unavailable (-30)">>]
    ELSE IF ~NumLess(ParseFloat(KeepDigitsAndDots(tvl)), 10)
    THEN [score |-> 100 - 20,
          rules |-> <<"Caution: Low TVL (" \o tvl \o " < $10M) (-20)">>]
    ELSE [score |-> 100, rules |-> <<>>]

\* TvlRule with the unknown-TVL penalty taken for the low-TVL one (-20)
TvlRuleSamePenalty(tvl) ==
    IF tvl = "Unknown"
    THEN [score |-> 100 - 20, rules |-> <<"Penalty: TVL data unavailable (-30)">>]
    ELSE IF NumLess(ParseFloat(KeepDigitsAndDots(tvl)), 10)
    THEN [score |-> 100 - 20,
          rules |-> <<"Caution: Low TVL (" \o tvl \o " < $10M) (-20)">>]
    ELSE [score |-> 100, rules |-> <<>>]

\* Rule 2: the score and the rules after the TVL assessment
TvlRule(tvl) ==
    IF tvl = "Unknown"
    THEN [score |-> 100 - 30, rules |-> <<"Penalty: TVL data unavailable (-30)">>]
    ELSE IF NumLess(ParseFloat(KeepDigitsAndDots(tvl)), 10)
    THEN [score |-> 100 - 20,
          rules |-> <<"Caution: Low TVL (" \o tvl \o " < $10M) (-20)">>]
    ELSE [score |-> 100, rules |-> <<>>]

\* calculateRiskScore without the early return of rule 1: the score is set to 0
\* and the TVL rule still runs
calculateRiskScoreNoReturn(securityStats) ==
    IF ~Has(securityStats, "tvl")
    THEN Thrown
    ELSE LET hacked == Has(securityStats, "recent_hack_count")
                       /\ securityStats.recent_hack_count > 0
             r == TvlRule(securityStats.tvl)
             score == IF hacked THEN r.score - 100 ELSE r.score
             rules == IF hacked
                      THEN <<"CRITICAL: Protocol was hacked recently.">> \o r.rules
                      ELSE r.rules
         IN  [score |-> score,
              verdict |-> Verdict(score),
              explanation |-> IF Len(rules) > 0 THEN JoinRules(rules)
                              ELSE "Standard security checks passed."]

calculateRiskScore(securityStats) ==
    IF Has(securityStats, "recent_hack_count") /\ securityStats.recent_hack_count > 0
    THEN [score |-> 0,
          verdict |-> "DANGER",
          explanation |-> "DANGER: Protocol has "
                          \o IntToString(securityStats.recent_hack_count)
                          \o " recent hacks. Immediate risk."]
    ELSE IF ~Has(securityStats, "tvl")
    THEN Thrown     \* securityStats.tvl.replace on undefined
    ELSE LET r == TvlRule(securityStats.tvl)
         IN  [score |-> r.score,
              verdict |-> Verdict(r.score),
              explanation |-> IF Len(r.rules) > 0 THEN JoinRules(r.rules)
                              ELSE "Standard security checks passed."]

(***************************************************************************)
(* getProtocolSlug                                                         *)
(*                                                                         *)
(* allProtocolsCache holds what `allProtocolsCache = res.data` stored:     *)
(* kind "null" before any store, kind "array" with the directory entries,  *)
(* or kind "other" for a response body that is not an array (an error      *)
(* object or a text page: truthy, so it is kept, and .find is not a        *)
(* function on it).                                                        *)
(***************************************************************************)
NullCache == [kind |-> "null", items |-> <<>>]

ArrayBody(entries) == [kind |-> "array", items |-> entries]

OtherBody == [kind |-> "other", items |-> <<>>]

\* const overrides = {...}
Overrides ==
    [k \in {"cbridge", "amarok", "circle"} |->
        CASE k = "cbridge" -> "celer-network"
          [] k = "amarok" -> "connext"
          [] k = "circle" -> "cctp"]

\* const searchName = bridgeName.toLowerCase().trim()
SearchName(name) == Trim(ToLowerCase(name))

\* bridgeName.replace(/v\d+$/i, ''): a "v" or "V" followed by digits up to the end
StripVersion(s) ==
    LET d == DigitSuffixLen(s)
    IN  IF d > 0 /\ Len(s) > d /\ LowerChar(CharAt(s, Len(s) - d)) = "v"
        THEN SubSeq(s, 1, Len(s) - d - 1)
        ELSE s

\* Array.prototype.find, given the indices of the entries that satisfy the
\* predicate: the first of them, 0 when there is none
FindFirst(matching) ==
    IF matching = {} THEN 0
    ELSE CHOOSE k \in matching : \A j \in matching : k <= j

\* rule 1: exact slug or display-name match
ExactMatch(p, searchName) == p.slug = searchName \/ ToLowerCase(p.name) = searchName

\* ContainsMatch without searchName.includes(p.slug)
ContainsMatchOneWay(p, searchName) ==
    \/ Includes(p.slug, searchName)
    \/ Includes(ToLowerCase(p.name), searchName)

\* rule 2: contains match, either way round
ContainsMatch(p, searchName) ==
    \/ Includes(p.slug, searchName)
    \/ Includes(ToLowerCase(p.name), searchName)
    \/ Includes(searchName, p.slug)

\* rule 3: match on the name without its version suffix
StrippedMatch(p, strippedName) == p.slug = strippedName \/ Includes(p.slug, strippedName)

\* SearchDirectory as a single pass: the first entry that matches by rule 1 or by
\* rule 2, then rule 3
SearchDirectoryOnePass(entries, name) ==
    LET searchName == SearchName(name)
        strippedName == StripVersion(searchName)
        all == 1..Len(entries)
        anyMatch == FindFirst({k \in all : \/ ExactMatch(entries[k], searchName)
                                          \/ ContainsMatch(entries[k], searchName)})
        strippedMatch == FindFirst({k \in all : StrippedMatch(entries[k], strippedName)})
    IN  IF anyMatch > 0 THEN entries[anyMatch].slug
        ELSE IF strippedName # searchName /\ strippedMatch > 0
        THEN entries[strippedMatch].slug
        ELSE name

\* The fuzzy search of getProtocolSlug over a directory (lines 65-90)
SearchDirectory(entries, name) ==
    LET searchName == SearchName(name)
        strippedName == StripVersion(searchName)
        all == 1..Len(entries)
        exact == FindFirst({k \in all : ExactMatch(entries[k], searchName)})
        bestMatch == FindFirst({k \in all : ContainsMatch(entries[k], searchName)})
        strippedMatch == FindFirst({k \in all : StrippedMatch(entries[k], strippedName)})
    IN  IF exact > 0 THEN entries[exact].slug
        ELSE IF bestMatch > 0 THEN entries[bestMatch].slug
        ELSE IF strippedName # searchName /\ strippedMatch > 0
        THEN entries[strippedMatch].slug
        ELSE name

\* The catch block: return overrides[searchName] || searchName
CatchFallback(name) ==
    IF SearchName(name) \in DOMAIN Overrides
    THEN Overrides[SearchName(name)]
    ELSE SearchName(name)

\* The part of getProtocolSlug that runs against the cache (after the `if
\* (!allProtocolsCache)` block): the search, or the catch block when .find throws
ResolveWithCache(cache, name) ==
    IF cache.kind = "array" THEN SearchDirectory(cache.items, name)
    ELSE CatchFallback(name)

HasOverride(name) == SearchName(name) \in DOMAIN Overrides

\* NeedsFetch without the `if (!allProtocolsCache)` test
NeedsFetchAlways(cache, name) == ~HasOverride(name)

\* getProtocolSlug issues the directory request: no override, and the cache is
\* falsy at the moment of the check
NeedsFetch(cache, name) == ~HasOverride(name) /\ cache.kind = "null"

\* SlugNow with the override table consulted only when the search throws
SlugNowSearchFirst(cache, name) == ResolveWithCache(cache, name)

\* What getProtocolSlug returns when it does not have to wait for the directory
SlugNow(cache, name) ==
    IF HasOverride(name) THEN Overrides[SearchName(name)]
    ELSE ResolveWithCache(cache, name)

\* getSecurityStats(name) is called in slot i and runs up to its first await inside
\* getProtocolSlug
StartCall(i, name) ==
    /\ pc[i] = "idle"
    /\ bridgeName' = [bridgeName EXCEPT ![i] = name]
    /\ IF NeedsFetch(allProtocolsCache, name)
       THEN /\ dirRequests' = dirRequests + 1
            /\ pc' = [pc EXCEPT ![i] = "awaitDir"]
            /\ slug' = slug
       ELSE /\ dirRequests' = dirRequests
            /\ pc' = [pc EXCEPT ![i] = "slugged"]
            /\ slug' = [slug EXCEPT ![i] = SlugNow(allProtocolsCache, name)]
    /\ UNCHANGED <<tool, graph, boLocals, allProtocolsCache, tvlRes, hacksRes, security, risk, bo>>

\* The directory request of call i is answered with `body`
DirResponse(i, body) ==
    /\ pc[i] = "awaitDir"
    /\ allProtocolsCache' = body
    /\ slug' = [slug EXCEPT ![i] = ResolveWithCache(body, bridgeName[i])]
    /\ pc' = [pc EXCEPT ![i] = "slugged"]
    /\ UNCHANGED <<tool, graph, boLocals, dirRequests, bridgeName, tvlRes, hacksRes, security, risk, bo>>

\* The directory request of call i fails (timeout, connection or status error)
DirFailure(i) ==
    /\ pc[i] = "awaitDir"
    /\ slug' = [slug EXCEPT ![i] = CatchFallback(bridgeName[i])]
    /\ pc' = [pc EXCEPT ![i] = "slugged"]
    /\ UNCHANGED <<tool, graph, boLocals, allProtocolsCache, dirRequests, bridgeName, tvlRes, hacksRes,
                   security, risk, bo>>

(***************************************************************************)
(* getSecurityStats                                                        *)
(*                                                                         *)
(* A settled request is [status |-> "rejected"] or [status |-> "fulfilled",*)
(* data |-> body].  A TVL body is a record that may have the fields tvl    *)
(* ([kind |-> "array", v |-> the totalLiquidityUSD of the series] or       *)
(* [kind |-> "number", v |-> <<n>>]) and currentChainTvls (the values of   *)
(* the per-chain mapping); NullBody is a body that is null.  An incident   *)
(* body is [kind |-> "array", items |-> hacks] or NotAnArray.              *)
(***************************************************************************)
TwoYears == 63072000

Rejected == [status |-> "rejected"]

Fulfilled(body) == [status |-> "fulfilled", data |-> body]

NullBody == [null |-> TRUE]

NotAnArray == [kind |-> "other", items |-> <<>>]

RECURSIVE Sum(_)
Sum(seq) == IF Len(seq) = 0 THEN 0 ELSE Head(seq) + Sum(Tail(seq))

\* JavaScript truthiness of data.tvl
TvlTruthy(data) ==
    /\ Has(data, "tvl")
    /\ (data.tvl.kind = "number" => data.tvl.v[1] # 0)

\* const rawTvl = Array.isArray(tvl) ? sum of the series
\*              : currentChainTvls ? sum of its values : 0
RawTvl(data) ==
    IF data.tvl.kind = "array" THEN Sum(data.tvl.v)
    ELSE IF Has(data, "currentChainTvls") THEN Sum(data.currentChainTvls)
    ELSE 0

\* let tvl = "Unknown"; if (fulfilled && data.tvl) tvl = `$${...}M`
ExtractTvl(res) ==
    IF res.status = "fulfilled" /\ TvlTruthy(res.data)
    THEN FormatTvl(RawTvl(res.data))
    ELSE "Unknown"

\* hacks = data.filter(h => h.name.toLowerCase().includes(slug))
MatchingHacks(res, s) ==
    LET NamesSlug(h) == Includes(ToLowerCase(h.name), s)
    IN  IF res.status = "fulfilled" THEN SelectSeq(res.data.items, NamesSlug) ELSE <<>>

\* recentHacks = hacks.filter(h => h.date > Date.now() / 1000 - 63072000)
RecentHacks(hacks, now) ==
    LET Recent(h) == h.date > now - TwoYears
    IN  SelectSeq(hacks, Recent)

\* `${h.date}: ${h.classification} ($${h.amount} lost)`
HackDetail(h) ==
    IntToString(h.date) \o ": " \o h.classification \o " ($" \o IntToString(h.amount)
    \o " lost)"

\* StatsThrows if the two requests were awaited all-or-nothing: a rejection of
\* either is thrown as well
StatsThrowsOnRejection(tvl, hacks) ==
    \/ tvl.status = "rejected"
    \/ hacks.status = "rejected"
    \/ tvl.status = "fulfilled" /\ Has(tvl.data, "null")
    \/ hacks.status = "fulfilled" /\ hacks.data.kind # "array"

\* A TypeError inside the try block: data of the TVL response is null
\* (data.tvl), or data of the incident response has no filter method
StatsThrows(tvl, hacks) ==
    \/ tvl.status = "fulfilled" /\ Has(tvl.data, "null")
    \/ hacks.status = "fulfilled" /\ hacks.data.kind # "array"

\* What getSecurityStats returns once both requests have settled
SecurityStats(name, s, tvl, hacks, now) ==
    IF StatsThrows(tvl, hacks)
    THEN [bridge |-> name, error |-> "Security data unavailable"]
    ELSE LET recentHacks == RecentHacks(MatchingHacks(hacks, s), now)
         IN  [bridge |-> name,
              tvl |-> ExtractTvl(tvl),
              recent_hack_count |-> Len(recentHacks),
              hack_details |-> [k \in 1..Len(recentHacks) |-> HackDetail(recentHacks[k])],
              audit_status |-> "Check L2Beat for details"]

\* The TVL request of call i settles
TvlSettle(i, res) ==
    /\ pc[i] = "slugged"
    /\ tvlRes[i] = Pending
    /\ tvlRes' = [tvlRes EXCEPT ![i] = res]
    /\ UNCHANGED <<tool, graph, boLocals, allProtocolsCache, dirRequests, pc, bridgeName, slug, hacksRes,
                   security, risk, bo>>

\* The incident-history request of call i settles
HacksSettle(i, res) ==
    /\ pc[i] = "slugged"
    /\ hacksRes[i] = Pending
    /\ hacksRes' = [hacksRes EXCEPT ![i] = res]
    /\ UNCHANGED <<tool, graph, boLocals, allProtocolsCache, dirRequests, pc, bridgeName, slug, tvlRes,
                   security, risk, bo>>

\* Promise.allSettled resolves and getSecurityStats runs to its return, at time
\* `now` (Date.now() / 1000)
StatsReturn(i, now) ==
    /\ pc[i] = "slugged"
    /\ tvlRes[i] # Pending
    /\ hacksRes[i] # Pending
    /\ security' = [security EXCEPT
                      ![i] = SecurityStats(bridgeName[i], slug[i], tvlRes[i], hacksRes[i], now)]
    /\ pc' = [pc EXCEPT ![i] = "stats"]
    /\ UNCHANGED <<tool, graph, boLocals, allProtocolsCache, dirRequests, bridgeName, slug, tvlRes, hacksRes,
                   risk, bo>>

(***************************************************************************)
(* normalizeChain                                                          *)
(*                                                                         *)
(* A JavaScript value that is a number, a string or undefined is the       *)
(* record [t, n, s]: the type tag, the number and the string.              *)
(***************************************************************************)
Undefined == [t |-> "undefined", n |-> 0, s |-> ""]

Num(n) == [t |-> "number", n |-> n, s |-> ""]

Str(s) == [t |-> "string", n |-> 0, s |-> s]

\* !v
Falsy(v) ==
    \/ v.t = "undefined"
    \/ (v.t = "number" /\ v.n = 0)
    \/ (v.t = "string" /\ v.s = "")

CHAIN_MAP ==
    [eth |-> Num(1), mainnet |-> Num(1), ethereum |-> Num(1),
     arb |-> Num(42161), arbitrum |-> Num(42161),
     opt |-> Num(10), optimism |-> Num(10), op |-> Num(10),
     base |-> Num(8453),
     pol |-> Num(137), polygon |-> Num(137), matic |-> Num(137),
     zksync |-> Num(324), era |-> Num(324),
     linea |-> Num(59144),
     blast |-> Num(81457),
     bsc |-> Num(56), bnb |-> Num(56), binance |-> Num(56),
     opbnb |-> Num(204),
     ava |-> Num(43114), avalanche |-> Num(43114),
     sol |-> Str("sol"), solana |-> Str("sol")]

\* The property key a value is converted to when it indexes an object
PropertyKey(v) == IF v.t = "number" THEN IntToString(v.n) ELSE v.s

\* normalizeChain without the typeof input === 'number' test: the number is
\* looked up by its decimal string
normalizeChainNoNumberTest(input) ==
    IF Falsy(input) THEN Str("eth")
    ELSE LET key == Trim(ToLowerCase(PropertyKey(input)))
         IN  IF key \in DOMAIN CHAIN_MAP THEN CHAIN_MAP[key] ELSE Str(key)

normalizeChain(input) ==
    IF Falsy(input) THEN Str("eth")
    ELSE IF input.t = "number" THEN input
    ELSE LET key == Trim(ToLowerCase(input.s))
         IN  IF key \in DOMAIN CHAIN_MAP THEN CHAIN_MAP[key] ELSE Str(key)

\* CHAIN_MAP[chain] || chain
MapChainId(chain) ==
    IF PropertyKey(chain) \in DOMAIN CHAIN_MAP THEN CHAIN_MAP[PropertyKey(chain)]
    ELSE chain

(***************************************************************************)
(* getTokenDetails                                                         *)
(*                                                                         *)
(* The settled token lookup is Fulfilled(body), body a record of the       *)
(* fields the provider sent (JavaScript values) or NullBody, or a          *)
(* rejection [status |-> "rejected", message] that has the field           *)
(* apiMessage when the provider answered with an error body.               *)
(***************************************************************************)
FALLBACK_TOKENS ==
    ("42161" :> [USDT |-> [address |-> "0xFd086bC7CD5C481DCC9C85ebE478A1C0b69FCbb9",
                           decimals |-> 6],
                 USDC |-> [address |-> "0xaf88d065e77c8cC2239327C5EDb3A432268e5831",
                           decimals |-> 6]])
    @@ ("10" :> [USDT |-> [address |-> "0x94b008aA00579c1307B0EF2c499a98a359659952",
                           decimals |-> 6]])

RejectedWith(message) == [status |-> "rejected", message |-> message]

RejectedByApi(message, apiMessage) ==
    [status |-> "rejected", message |-> message, apiMessage |-> apiMessage]

\* res.data.f of a body that is an object
Field(body, f) == IF Has(body, f) THEN body[f] ELSE Undefined

\* The try block throws: the request was rejected, or res.data is null
LookupThrows(res) == res.status = "rejected" \/ Has(res.data, "null")

\* e.response?.data?.message || e.message
ErrorMessage(res) ==
    IF res.status = "fulfilled" THEN "Cannot read properties of null (reading 'symbol')"
    ELSE IF Has(res, "apiMessage") THEN res.apiMessage
    ELSE res.message

\* FALLBACK_TOKENS[chain]?.[tokenSymbol.toUpperCase()] is truthy
HasFallback(chain, tokenSymbol) ==
    /\ PropertyKey(chain) \in DOMAIN FALLBACK_TOKENS
    /\ ToUpperCase(tokenSymbol) \in DOMAIN FALLBACK_TOKENS[PropertyKey(chain)]

\* What getTokenDetails(chainRaw, tokenSymbol) returns when its lookup settles
\* with res
getTokenDetails(chainRaw, tokenSymbol, res) ==
    LET chain == normalizeChain(chainRaw)
    IN  IF ~LookupThrows(res)
        THEN [success |-> TRUE,
              symbol |-> Field(res.data, "symbol"),
              address |-> Field(res.data, "address"),
              decimals |-> Field(res.data, "decimals"),
              chainId |-> Field(res.data, "chainId"),
              priceUSD |-> Field(res.data, "priceUSD")]
        ELSE IF HasFallback(chain, tokenSymbol)
        THEN LET fallback == FALLBACK_TOKENS[PropertyKey(chain)][ToUpperCase(tokenSymbol)]
             IN  [success |-> TRUE,
                  symbol |-> Str(ToUpperCase(tokenSymbol)),
                  address |-> Str(fallback.address),
                  decimals |-> Num(fallback.decimals),
                  chainId |-> chain,
                  priceUSD |-> Str("Unknown (Fallback)")]
        ELSE [success |-> FALSE, error |-> ErrorMessage(res)]

(***************************************************************************)
(* getBridgeOptions                                                        *)
(*                                                                         *)
(* bo.pc is "idle" while the call waits for the route provider, "awaitAll" *)
(* while Promise.all waits for the per-route tasks (slots 1..Len(bo.keys)),*)
(* and "returned" with bo.result once the call has returned.               *)
(* A provider route is [key, toAmount, gasCostUSD, estimate], where estimate *)
(* may have the fields feeCosts (entries [name] or [name, amountUSD]) and   *)
(* executionDuration (seconds); bo.keys are the bridge keys of bo.routes.   *)
(***************************************************************************)
BoIdle == [pc |-> "idle"]

\* formatDuration(seconds) for the executionDuration of an estimate
formatDuration(estimate) ==
    IF ~Has(estimate, "executionDuration") \/ estimate.executionDuration = 0
    THEN "Unknown"
    ELSE LET sec == estimate.executionDuration
             min == sec \div 60
         IN  IF sec < 60 THEN IntToString(sec) \o "s"
             ELSE IF min < 60 THEN IntToString(min) \o "m"
             ELSE IntToString(min \div 60) \o "h " \o IntToString(min % 60) \o "m"

\* Amounts are sums of decimal strings; they are kept in units of 10^-AmountScale
AmountScale == 6

\* parseFloat(f.amountUSD || 0) of a fee entry
AmountOf(f) ==
    IF ~Has(f, "amountUSD") \/ f.amountUSD = "" THEN 0
    ELSE LET x == ParseFloat(f.amountUSD)
         IN  x.m * Pow10(AmountScale - x.scale)

\* f.name.includes('LIFI')
IsAggregatorFee(f) == Includes(f.name, "LIFI")

IsProtocolFee(f) == ~IsAggregatorFee(f)

\* fees.reduce((sum, f) => sum + parseFloat(f.amountUSD || 0), 0)
RECURSIVE ReduceFees(_)
ReduceFees(fees) ==
    IF Len(fees) = 0 THEN 0 ELSE AmountOf(Head(fees)) + ReduceFees(Tail(fees))

\* const fees = (r.steps[0].estimate.feeCosts || [])
FeeCosts(estimate) == IF Has(estimate, "feeCosts") THEN estimate.feeCosts ELSE <<>>

\* ProtUSD with the filter of the aggregator subtotal left out
ProtUSDAllFees(fees) == ReduceFees(fees)

AggUSD(fees) == ReduceFees(SelectSeq(fees, IsAggregatorFee))

ProtUSD(fees) == ReduceFees(SelectSeq(fees, IsProtocolFee))

\* x.toFixed(4): the amount rounded to the nearest ten-thousandth, with four
\* decimals
TenThousandths(amount) == (amount + 50) \div 100

Fixed4String(u) ==
    IntToString(u \div 10000) \o "." \o IntToString((u % 10000) \div 1000)
        \o IntToString((u % 1000) \div 100) \o IntToString((u % 100) \div 10)
        \o IntToString(u % 10)

ToFixed4(amount) == Fixed4String(TenThousandths(amount))

\* the object one route's callback returns
RouteOption(r, risk1) ==
    [bridge |-> r.key,
     amountOut |-> r.toAmount,
     gasCostUSD |-> r.gasCostUSD,
     protocolFeeUSD |-> ToFixed4(ProtUSD(FeeCosts(r.estimate))),
     aggregatorFeeUSD |-> ToFixed4(AggUSD(FeeCosts(r.estimate))),
     executionDuration |-> formatDuration(r.estimate),
     riskScore |-> risk1.score,
     securityVerdict |-> risk1.verdict,
     securityReason |-> risk1.explanation]

\* const bridgeKey = r.steps[0].toolDetails.key, for every route
KeysOf(routes) == [k \in 1..Len(routes) |-> routes[k].key]

\* BoSuccess with the options sorted by risk score, safest first
BoSuccessSortedByRisk(routes, risks) ==
    LET n == Len(routes)
        perm == CHOOSE f \in [1..n -> 1..n] :
                    /\ \A a \in 1..n : \A b \in 1..n : f[a] = f[b] => a = b
                    /\ \A a \in 1..n : \A b \in 1..n :
                          a < b => \/ risks[f[a]].score > risks[f[b]].score
                                   \/ (risks[f[a]].score = risks[f[b]].score /\ f[a] < f[b])
    IN  [pc |-> "returned",
         keys |-> KeysOf(routes),
         routes |-> routes,
         result |-> [success |-> TRUE,
                     options |-> [k \in 1..n |-> RouteOption(routes[perm[k]], risks[perm[k]])]]]

\* return { success: true, options: routes }
BoSuccess(routes, risks) ==
    [pc |-> "returned",
     keys |-> KeysOf(routes),
     routes |-> routes,
     result |-> [success |-> TRUE,
                 options |-> [k \in 1..Len(routes) |-> RouteOption(routes[k], risks[k])]]]

\* catch (e) { return { success: false, error: e.response?.data?.message || e.message } }
BoFailure(routes, message) ==
    [pc |-> "returned", keys |-> KeysOf(routes), routes |-> routes,
     result |-> [success |-> FALSE, error |-> message]]

\* Promise.all after the callback of one route has settled with the risks `risks`
\* and positions `pcs`: it rejects with the first rejection, and resolves once
\* every callback has returned
BoAfterTask(i, pcs, risks) ==
    IF bo.pc # "awaitAll" \/ i > Len(bo.keys) THEN bo
    ELSE IF IsThrown(risks[i])
    THEN BoFailure(bo.routes, "Cannot read properties of undefined (reading 'replace')")
    ELSE IF \A k \in 1..Len(bo.keys) : pcs[k] = "done"
    THEN BoSuccess(bo.routes, risks)
    ELSE bo

\* The caller's step after getSecurityStats has returned:
\* const risk = calculateRiskScore(security), and, in a route callback of
\* getBridgeOptions, the return of the callback into Promise.all.  The two
\* settled responses were locals of getSecurityStats and are gone.
Score(i) ==
    /\ pc[i] = "stats"
    /\ risk' = [risk EXCEPT ![i] = calculateRiskScore(security[i])]
    /\ pc' = [pc EXCEPT ![i] = "done"]
    /\ bo' = BoAfterTask(i, pc', risk')
    /\ tvlRes' = [tvlRes EXCEPT ![i] = Pending]
    /\ hacksRes' = [hacksRes EXCEPT ![i] = Pending]
    /\ UNCHANGED <<tool, graph, boLocals, allProtocolsCache, dirRequests, bridgeName, slug, security>>

Slots == 1..MaxRoutes

\* The route provider answers with `routes`, in its ranking order;
\* res.data.routes.map(async ...) runs every callback up to its first await before
\* anything else happens
RoutesResponse(routes) ==
    /\ bo.pc = "idle"
    /\ \A i \in Slots : pc[i] = "idle"
    /\ LET keys == KeysOf(routes)
           fetching == {k \in 1..Len(keys) : NeedsFetch(allProtocolsCache, keys[k])}
       IN  /\ dirRequests' = dirRequests + Cardinality(fetching)
           /\ pc' = [i \in Slots |->
                        IF i > Len(keys) THEN "idle"
                        ELSE IF i \in fetching THEN "awaitDir" ELSE "slugged"]
           /\ slug' = [i \in Slots |->
                        IF i > Len(keys) \/ i \in fetching THEN slug[i]
                        ELSE SlugNow(allProtocolsCache, keys[i])]
           /\ bridgeName' = [i \in Slots |->
                                IF i > Len(keys) THEN bridgeName[i] ELSE keys[i]]
    /\ bo' = IF Len(routes) = 0 THEN BoSuccess(routes, <<>>)
             ELSE [pc |-> "awaitAll", keys |-> KeysOf(routes), routes |-> routes]
    /\ UNCHANGED <<tool, graph, boLocals, allProtocolsCache, tvlRes, hacksRes, security, risk>>

\* The route request fails (timeout or error status)
RoutesFailure ==
    /\ bo.pc = "idle"
    /\ \A i \in Slots : pc[i] = "idle"
    /\ bo' = BoFailure(<<>>, "timeout of 15000ms exceeded")
    /\ UNCHANGED <<tool, graph, boLocals, allProtocolsCache, dirRequests, pc, bridgeName, slug, tvlRes,
                   hacksRes, security, risk>>

\* bo before getBridgeOptions is called, and boLocals before anything is known
NotCalled == [pc |-> "start"]

NoLocals == [lookups |-> <<>>]

\* s.startsWith('0x')
StartsWith0xNever(s) == FALSE

StartsWith0x(s) == Len(s) >= 2 /\ SubSeq(s, 1, 2) = "0x"

\* axios.get('https://li.quest/v1/token', {params: {chain, token}}) is sent for the
\* token `which` ("from" or "to")
SendLookup(locals, which, chainRaw, token) ==
    [locals EXCEPT !.lookups =
        Append(@, [which |-> which, chain |-> normalizeChain(chainRaw), token |-> token,
                   res |-> Pending, details |-> Pending])]

\* SendRoutes with the amount scaled to six decimals
SendRoutesScaled(locals) ==
    [bo |-> BoIdle,
     locals |-> [locals EXCEPT !.params =
                    [fromChainId |-> MapChainId(locals.fromChain),
                     toChainId |-> MapChainId(locals.toChain),
                     fromTokenAddress |-> locals.fromTokenAddr,
                     toTokenAddress |-> locals.toTokenAddr,
                     fromAmount |-> locals.amount \o "000000",
                     options |-> [order |-> "RECOMMENDED", limit |-> 3]]]]

\* Lines 203-212: the route request is built and sent
SendRoutes(locals) ==
    [bo |-> BoIdle,
     locals |-> [locals EXCEPT !.params =
                    [fromChainId |-> MapChainId(locals.fromChain),
                     toChainId |-> MapChainId(locals.toChain),
                     fromTokenAddress |-> locals.fromTokenAddr,
                     toTokenAddress |-> locals.toTokenAddr,
                     fromAmount |-> locals.amount,
                     options |-> [order |-> "RECOMMENDED", limit |-> 3]]]]

\* Lines 192-196: let toTokenAddr = toTokenRaw || fromTokenRaw, and its lookup
\* when it does not start with "0x"
ResolveTo(locals) ==
    LET toTokenAddr == IF Falsy(locals.toTokenRaw) THEN locals.fromTokenRaw
                       ELSE locals.toTokenRaw
        next == [locals EXCEPT !.toTokenAddr = toTokenAddr]
    IN  IF StartsWith0x(toTokenAddr.s) THEN SendRoutes(next)
        ELSE [bo |-> [pc |-> "awaitTo"],
              locals |-> SendLookup(next, "to", locals.toChain, toTokenAddr.s)]

\* AfterTokenDetails that gives up when the resolution failed
AfterTokenDetailsAborting(locals, which, details) ==
    IF ~details.success
    THEN [bo |-> [pc |-> "returned", keys |-> <<>>, routes |-> <<>>,
                  result |-> [success |-> FALSE, error |-> details.error]],
          locals |-> locals]
    ELSE IF which = "from"
    THEN ResolveTo([locals EXCEPT !.fromTokenAddr = details.address])
    ELSE SendRoutes([locals EXCEPT !.toTokenAddr = details.address])

\* if (tokenDetails.success) { ...Addr = tokenDetails.address }, and what follows
AfterTokenDetails(locals, which, details) ==
    IF which = "from"
    THEN ResolveTo(IF details.success
                   THEN [locals EXCEPT !.fromTokenAddr = details.address]
                   ELSE locals)
    ELSE SendRoutes(IF details.success
                    THEN [locals EXCEPT !.toTokenAddr = details.address]
                    ELSE locals)

\* getBridgeOptions(fromChainRaw, toChainRaw, fromTokenRaw, amountRaw, toTokenRaw)
\* is called and runs up to its first await, or to its return when
\* fromTokenAddr.startsWith throws
BoCall(fromChainRaw, toChainRaw, fromTokenRaw, amountRaw, toTokenRaw) ==
    /\ bo.pc = "start"
    /\ LET locals == [fromChainRaw |-> fromChainRaw, toChainRaw |-> toChainRaw,
                      fromTokenRaw |-> fromTokenRaw, toTokenRaw |-> toTokenRaw,
                      fromChain |-> normalizeChain(fromChainRaw),
                      toChain |-> normalizeChain(toChainRaw),
                      amountRaw |-> amountRaw,
                      amount |-> amountRaw,
                      fromTokenAddr |-> fromTokenRaw,
                      toTokenAddr |-> Undefined,
                      lookups |-> <<>>,
                      params |-> Pending]
           step == IF fromTokenRaw.t # "string"
                   THEN [bo |-> BoFailure(<<>>, "Cannot read properties of undefined (reading 'startsWith')"),
                         locals |-> locals]
                   ELSE IF StartsWith0x(fromTokenRaw.s) THEN ResolveTo(locals)
                   ELSE [bo |-> [pc |-> "awaitFrom"],
                         locals |-> SendLookup(locals, "from", locals.fromChain,
                                               fromTokenRaw.s)]
       IN  /\ bo' = step.bo
           /\ boLocals' = step.locals
    /\ UNCHANGED <<tool, graph, allProtocolsCache, dirRequests, pc, bridgeName, slug, tvlRes,
                   hacksRes, security, risk>>

\* The token lookup in flight settles with res: getTokenDetails returns, and
\* getBridgeOptions runs on to its next await
TokenSettle(res) ==
    /\ bo.pc \in {"awaitFrom", "awaitTo"}
    /\ LET last == Len(boLocals.lookups)
           lookup == boLocals.lookups[last]
           chainRaw == IF lookup.which = "from" THEN boLocals.fromChain
                       ELSE boLocals.toChain
           details == getTokenDetails(chainRaw, lookup.token, res)
           settled == [boLocals EXCEPT !.lookups[last].res = res,
                                       !.lookups[last].details = details]
           step == AfterTokenDetails(settled, lookup.which, details)
       IN  /\ bo' = step.bo
           /\ boLocals' = step.locals
    /\ UNCHANGED <<tool, graph, allProtocolsCache, dirRequests, pc, bridgeName, slug, tvlRes,
                   hacksRes, security, risk>>

IdleSlots(S) ==
    /\ pc = [i \in S |-> "idle"]
    /\ bridgeName = [i \in S |-> ""]
    /\ slug = [i \in S |-> ""]
    /\ tvlRes = [i \in S |-> Pending]
    /\ hacksRes = [i \in S |-> Pending]
    /\ security = [i \in S |-> Pending]
    /\ risk = [i \in S |-> Pending]

\* getBridgeOptions is called again in the same process, once every task of the
\* previous call has finished; the cache is module state and stays
NextComparison ==
    /\ bo.pc = "returned"
    /\ \A i \in Slots : pc[i] \in {"idle", "done"}
    /\ dirRequests < MaxDirRequests
    /\ bo' = BoIdle
    /\ pc' = [i \in Slots |-> "idle"]
    /\ bridgeName' = [i \in Slots |-> ""]
    /\ slug' = [i \in Slots |-> ""]
    /\ tvlRes' = [i \in Slots |-> Pending]
    /\ hacksRes' = [i \in Slots |-> Pending]
    /\ security' = [i \in Slots |-> Pending]
    /\ risk' = [i \in Slots |-> Pending]
    /\ UNCHANGED <<tool, graph, boLocals, allProtocolsCache, dirRequests>>

(***************************************************************************)
(* getRoute, getSupportedBridges and getTokenDetails called on their own   *)
(* (the get_route_quote, get_supported_bridges and get_token_details       *)
(* tools).  tool.pc is "idle", "await" while the request is in flight, and *)
(* "returned" with tool.res, the settled request, and tool.result.         *)
(*                                                                         *)
(* A quote body is a record that may have the fields toolDetails, estimate *)
(* (feeCosts, gasCosts, executionDuration, toAmount) and action; a fee or  *)
(* gas entry may have the fields name, amount, amountUSD and token.        *)
(***************************************************************************)
TypeErrorMessage == "Cannot read properties of undefined"

\* e.response?.data?.message || e.message, for a rejection or a TypeError thrown
\* while the body was read
CaughtMessage(res) ==
    IF res.status = "fulfilled" THEN TypeErrorMessage
    ELSE IF Has(res, "apiMessage") THEN res.apiMessage
    ELSE res.message

\* (data.estimate.gasCosts || [])
GasCosts(estimate) == IF Has(estimate, "gasCosts") THEN estimate.gasCosts ELSE <<>>

\* Reading the quote body throws: data, data.estimate, a token of a fee or gas
\* entry, the name of a fee entry, data.toolDetails or data.action is missing
QuoteThrows(data) ==
    \/ Has(data, "null")
    \/ ~Has(data, "estimate")
    \/ \E k \in 1..Len(FeeCosts(data.estimate)) :
          ~Has(FeeCosts(data.estimate)[k], "token") \/ ~Has(FeeCosts(data.estimate)[k], "name")
    \/ \E k \in 1..Len(GasCosts(data.estimate)) : ~Has(GasCosts(data.estimate)[k], "token")
    \/ ~Has(data, "toolDetails")
    \/ ~Has(data, "action")

\* { name: f.name, amount: f.amount, symbol: f.token.symbol, amountUSD: f.amountUSD }
FeeDetail(f) ==
    [name |-> f.name, symbol |-> f.token.symbol,
     amount |-> IF Has(f, "amount") THEN Str(f.amount) ELSE Undefined,
     amountUSD |-> IF Has(f, "amountUSD") THEN Str(f.amountUSD) ELSE Undefined]

\* { type: g.type, amountUSD: g.amountUSD, symbol: g.token.symbol, limit: g.limit }
GasDetail(g) ==
    [type |-> IF Has(g, "type") THEN Str(g.type) ELSE Undefined,
     symbol |-> g.token.symbol,
     amountUSD |-> IF Has(g, "amountUSD") THEN Str(g.amountUSD) ELSE Undefined,
     limit |-> IF Has(g, "limit") THEN Str(g.limit) ELSE Undefined]

\* What getRoute returns when its request settles with res
QuoteResult(res, amountIn) ==
    IF res.status = "rejected" \/ QuoteThrows(res.data)
    THEN [success |-> FALSE, error |-> CaughtMessage(res)]
    ELSE LET data == res.data
             fees == FeeCosts(data.estimate)
             gas == GasCosts(data.estimate)
         IN  [success |-> TRUE,
              bridgeName |-> data.toolDetails.key,
              estimatedTime |-> formatDuration(data.estimate),
              gasCostUSD |-> ToFixed4(ReduceFees(gas)),
              protocolFeeUSD |-> ToFixed4(ProtUSD(fees)),
              aggregatorFeeUSD |-> ToFixed4(AggUSD(fees)),
              feeDetails |-> [k \in 1..Len(fees) |-> FeeDetail(fees[k])],
              gasDetails |-> [k \in 1..Len(gas) |-> GasDetail(gas[k])],
              tokenAddress |-> data.action.fromToken.address,
              amountOut |-> data.estimate.toAmount,
              amountIn |-> amountIn]

\* What getSupportedBridges returns when its request settles with res
BridgesResult(res) ==
    IF res.status = "rejected" \/ Has(res.data, "null") \/ ~Has(res.data, "bridges")
    THEN [success |-> FALSE, error |-> CaughtMessage(res)]
    ELSE [success |-> TRUE,
          total |-> Len(res.data.bridges),
          bridges |-> [k \in 1..Len(res.data.bridges) |-> res.data.bridges[k].name]]

\* getRoute is called and sends its quote request
RouteCall(fromChainRaw, toChainRaw, fromTokenRaw, amountRaw, toTokenRaw) ==
    /\ tool.pc = "idle"
    /\ tool' = [pc |-> "await", name |-> "getRoute", amountIn |-> amountRaw,
                params |-> [fromChain |-> normalizeChain(fromChainRaw),
                            toChain |-> normalizeChain(toChainRaw),
                            fromToken |-> fromTokenRaw,
                            toToken |-> IF Falsy(toTokenRaw) THEN fromTokenRaw
                                        ELSE toTokenRaw,
                            fromAmount |-> amountRaw,
                            fromAddress |-> "0xd8dA6BF26964aF9D7eEd9e03E53415D37aA96045"]]
    /\ UNCHANGED <<allProtocolsCache, dirRequests, pc, bridgeName, slug, tvlRes,
                   hacksRes, security, risk, bo, boLocals, graph>>

\* The quote request settles and getRoute returns
RouteSettle(res) ==
    /\ tool.pc = "await"
    /\ tool.name = "getRoute"
    /\ tool' = [pc |-> "returned", name |-> tool.name, params |-> tool.params, res |-> res,
                result |-> QuoteResult(res, tool.amountIn)]
    /\ UNCHANGED <<allProtocolsCache, dirRequests, pc, bridgeName, slug, tvlRes,
                   hacksRes, security, risk, bo, boLocals, graph>>

\* getTokenDetails(chainRaw, tokenSymbol) is called and sends its lookup
TokenCall(chainRaw, tokenSymbol) ==
    /\ tool.pc = "idle"
    /\ tool' = [pc |-> "await", name |-> "getTokenDetails", chainRaw |-> chainRaw,
                params |-> [chain |-> normalizeChain(chainRaw), token |-> tokenSymbol]]
    /\ UNCHANGED <<allProtocolsCache, dirRequests, pc, bridgeName, slug, tvlRes,
                   hacksRes, security, risk, bo, boLocals, graph>>

\* The lookup settles and getTokenDetails returns
TokenReturn(res) ==
    /\ tool.pc = "await"
    /\ tool.name = "getTokenDetails"
    /\ tool' = [pc |-> "returned", name |-> tool.name, params |-> tool.params, res |-> res,
                result |-> getTokenDetails(tool.chainRaw, tool.params.token, res)]
    /\ UNCHANGED <<allProtocolsCache, dirRequests, pc, bridgeName, slug, tvlRes,
                   hacksRes, security, risk, bo, boLocals, graph>>

\* getSupportedBridges is called and sends its request
BridgesCall ==
    /\ tool.pc = "idle"
    /\ tool' = [pc |-> "await", name |-> "getSupportedBridges", params |-> <<>>]
    /\ UNCHANGED <<allProtocolsCache, dirRequests, pc, bridgeName, slug, tvlRes,
                   hacksRes, security, risk, bo, boLocals, graph>>

\* The request settles and getSupportedBridges returns
BridgesSettle(res) ==
    /\ tool.pc = "await"
    /\ tool.name = "getSupportedBridges"
    /\ tool' = [pc |-> "returned", name |-> tool.name, params |-> tool.params, res |-> res,
                result |-> BridgesResult(res)]
    /\ UNCHANGED <<allProtocolsCache, dirRequests, pc, bridgeName, slug, tvlRes,
                   hacksRes, security, risk, bo, boLocals, graph>>

(***************************************************************************)
(* The agent graph (graph.js).  graph.node is the node that runs next,     *)
(* graph.ran the node that ran last, graph.messages the state's messages.  *)
(* A message of the model is [type |-> "ai"] with, possibly, tool_calls, a *)
(* list of tool names; a tool's answer is [type |-> "tool", name].         *)
(***************************************************************************)
\* shouldContinue that asks for the tools whenever tool_calls is present
shouldContinueIfPresent(state) ==
    LET lastMessage == state.messages[Len(state.messages)]
    IN  IF Has(lastMessage, "tool_calls") THEN "tools" ELSE "__end__"

\* lastMessage.tool_calls?.length is truthy: "tools", otherwise "__end__"
shouldContinue(state) ==
    LET lastMessage == state.messages[Len(state.messages)]
    IN  IF Has(lastMessage, "tool_calls") /\ Len(lastMessage.tool_calls) > 0
        THEN "tools"
        ELSE "__end__"

\* The tool calls of a message; none when it has no tool_calls
ToolCallsOf(message) ==
    IF Has(message, "tool_calls") THEN message.tool_calls ELSE <<>>

\* addEdge("__start__", "agent")
StartEdge ==
    /\ graph.node = "__start__"
    /\ graph' = [graph EXCEPT !.node = "agent"]
    /\ UNCHANGED <<allProtocolsCache, dirRequests, pc, bridgeName, slug, tvlRes,
                   hacksRes, security, risk, bo, boLocals, tool>>

\* The agent node: callModel returns the model's response, which is appended
\* to the messages; the conditional edge shouldContinue picks the next node
CallModel(response) ==
    /\ graph.node = "agent"
    /\ ToolCallsOf(response) # <<>> => Len(graph.messages) < MaxMessages
    /\ LET state == [messages |-> Append(graph.messages, response)]
       IN  graph' = [node |-> shouldContinue(state), ran |-> "agent",
                     messages |-> state.messages]
    /\ UNCHANGED <<allProtocolsCache, dirRequests, pc, bridgeName, slug, tvlRes,
                   hacksRes, security, risk, bo, boLocals, tool>>

\* The tools node: one tool message for each tool call of the last message;
\* addEdge("tools", "agent")
ToolNode ==
    /\ graph.node = "tools"
    /\ LET calls == graph.messages[Len(graph.messages)].tool_calls
       IN  graph' = [node |-> "agent", ran |-> "tools",
                     messages |-> graph.messages \o
                         [k \in 1..Len(calls) |-> [type |-> "tool", name |-> calls[k]]]]
    /\ UNCHANGED <<allProtocolsCache, dirRequests, pc, bridgeName, slug, tvlRes,
                   hacksRes, security, risk, bo, boLocals, tool>>

(***************************************************************************)
(* Spec: comparisons by getBridgeOptions, one after another, each fanning  *)
(* out into concurrent getSecurityStats calls that share the cache.        *)
(***************************************************************************)
Stargate == [slug |-> "stargate", name |-> "Stargate"]
Across == [slug |-> "across", name |-> "Across"]

BridgeKeys == {"cbridge", "stargatev2"}

LifiFee == [name |-> "LIFI Fixed Fee", amountUSD |-> "0.2500"]
RelayerFee == [name |-> "Relayer Fee", amountUSD |-> "1.25"]

\* the provider's route over the bridge `key`
RouteOf(key) ==
    IF key = "cbridge"
    THEN [key |-> key, toAmount |-> "99500000", gasCostUSD |-> "0.12",
          estimate |-> [feeCosts |-> <<LifiFee, RelayerFee>>, executionDuration |-> 95]]
    ELSE [key |-> key, toAmount |-> "99800000", gasCostUSD |-> "0.40",
          estimate |-> [executionDuration |-> 3700]]

ProviderRoutes == {RouteOf(key) : key \in BridgeKeys}

RECURSIVE SeqsUpTo(_, _)
SeqsUpTo(S, n) ==
    IF n = 0 THEN {<<>>}
    ELSE LET shorter == SeqsUpTo(S, n - 1)
         IN  shorter \cup {Append(q, x) : q \in {r \in shorter : Len(r) = n - 1}, x \in S}

DirBodies == {ArrayBody(<<Across, Stargate>>)}

Now == 1700000000

StargateHack ==
    [name |-> "Stargate Finance", date |-> Now - 86400, classification |-> "Exploit",
     amount |-> 1000000]

TvlResponses == {Rejected, Fulfilled([tvl |-> [kind |-> "array", v |-> <<12500000>>]])}

HackResponses ==
    {Fulfilled(NotAnArray), Fulfilled([kind |-> "array", items |-> <<StargateHack>>])}

Init ==
    /\ allProtocolsCache = NullCache
    /\ dirRequests = 0
    /\ IdleSlots(Slots)
    /\ bo = BoIdle
    /\ boLocals = NoLocals
    /\ tool = ToolIdle
    /\ graph = GraphStart

Next ==
    \/ \E routes \in SeqsUpTo(ProviderRoutes, MaxRoutes) : RoutesResponse(routes)
    \/ RoutesFailure
    \/ \E i \in Slots : \E body \in DirBodies : DirResponse(i, body)
    \/ \E i \in Slots : DirFailure(i)
    \/ \E i \in Slots : \E res \in TvlResponses : TvlSettle(i, res)
    \/ \E i \in Slots : \E res \in HackResponses : HacksSettle(i, res)
    \/ \E i \in Slots : StatsReturn(i, Now)
    \/ \E i \in Slots : Score(i)
    \/ NextComparison

Spec == Init /\ [][Next]_vars

(***************************************************************************)
(* SpecFees: one comparison whose provider answers with a single route     *)
(* over the bridge "cbridge" (an override key, so no directory request),   *)
(* over every fee list of up to MaxFees entries of a pool.                 *)
(***************************************************************************)
DustLifiFee == [name |-> "LIFI Integrator Fee", amountUSD |-> "0.00004"]
DustFee == [name |-> "LP Fee", amountUSD |-> "0.00004"]
UnpricedFee == [name |-> "Refuel Fee"]

FeePool == {LifiFee, RelayerFee, DustLifiFee, DustFee, UnpricedFee}

FeeLists == SeqsUpTo(FeePool, MaxFees)

FeeRoutes ==
    {[key |-> "cbridge", toAmount |-> "99500000", gasCostUSD |-> "0.12",
      estimate |-> [feeCosts |-> q, executionDuration |-> 95]] : q \in FeeLists}
    \cup {[key |-> "cbridge", toAmount |-> "99500000", gasCostUSD |-> "0.12",
           estimate |-> [executionDuration |-> 0]]}

NextFees ==
    \/ \E r \in FeeRoutes : RoutesResponse(<<r>>)
    \/ \E res \in TvlResponses : TvlSettle(1, res)
    \/ \E res \in HackResponses : HacksSettle(1, res)
    \/ StatsReturn(1, Now)
    \/ Score(1)

SpecFees == Init /\ [][NextFees]_vars

(***************************************************************************)
(* SpecCompare: one getBridgeOptions call from its start, over chain       *)
(* arguments that are every alias of CHAIN_MAP, other strings, a number or *)
(* missing, token arguments that are symbols, addresses or missing, and    *)
(* every outcome of the token lookups; the provider answers with no route  *)
(* or with one route over "cbridge".                                       *)
(***************************************************************************)
ChainArgs ==
    {Str(a) : a \in DOMAIN CHAIN_MAP}
    \cup {Str(" ETH "), Str("Arbitrum"), Str("fantom"), Num(42161), Undefined, Str("")}

TokenChainArgs == {Str("arb"), Str("opt"), Str("base")}

FromTokenArgs == {Str("USDT"), Str("usdc"), Str("DAI"), Str("0xaf88d065"), Undefined}

ToTokenArgs == {Str("USDT"), Str("0x94b008aA"), Undefined}

\* the argument lists of the calls
CompareCalls ==
    {<<c, Str("opt"), Str("USDT"), "1000000", Undefined>> : c \in ChainArgs}
    \cup {<<Str("arb"), c, Str("USDT"), "1000000", Undefined>> : c \in ChainArgs}
    \cup {<<c, d, f, "1000000", t>> :
            c \in TokenChainArgs, d \in TokenChainArgs, f \in FromTokenArgs, t \in ToTokenArgs}
    \cup {<<Str("arb"), Str("opt"), f, "25", Undefined>> : f \in FromTokenArgs}

TokenBodies ==
    {[symbol |-> Str("USDT"), address |-> Str("0xdAC17F95"), decimals |-> Num(6),
      chainId |-> Num(1), priceUSD |-> Str("1.0002")],
     [symbol |-> Str("DAI"), address |-> Str("0x6B175474"), decimals |-> Num(18),
      chainId |-> Num(1), priceUSD |-> Str("0.9998")],
     [message |-> Str("Not found")],
     NullBody}

TokenResponses ==
    {Fulfilled(b) : b \in TokenBodies}
    \cup {RejectedWith("timeout of 10000ms exceeded"),
          RejectedByApi("Request failed with status code 400", "Unknown token symbol")}

CompareRoutes == {<<>>, <<RouteOf("cbridge")>>}

InitCompare ==
    /\ allProtocolsCache = NullCache
    /\ dirRequests = 0
    /\ IdleSlots(Slots)
    /\ bo = NotCalled
    /\ boLocals = NoLocals
    /\ tool = ToolIdle
    /\ graph = GraphStart

NextCompare ==
    \/ \E a \in CompareCalls : BoCall(a[1], a[2], a[3], a[4], a[5])
    \/ \E res \in TokenResponses : TokenSettle(res)
    \/ \E routes \in CompareRoutes : RoutesResponse(routes)
    \/ RoutesFailure
    \/ \E res \in TvlResponses : TvlSettle(1, res)
    \/ \E res \in HackResponses : HacksSettle(1, res)
    \/ StatsReturn(1, Now)
    \/ Score(1)

SpecCompare == InitCompare /\ [][NextCompare]_vars

(***************************************************************************)
(* SpecTools: one call of getRoute, getTokenDetails or getSupportedBridges,*)
(* over rejected requests, well-formed bodies and bodies of unexpected     *)
(* shape.                                                                  *)
(***************************************************************************)
QuoteFee == [name |-> "LIFI Fixed Fee", amount |-> "250000", amountUSD |-> "0.2500",
             token |-> [symbol |-> "USDC"]]
QuoteLpFee == [name |-> "LP Fee", amount |-> "1250000", amountUSD |-> "1.25",
               token |-> [symbol |-> "USDC"]]
QuoteGas == [type |-> "SEND", amountUSD |-> "0.0312", limit |-> "120000",
             token |-> [symbol |-> "ETH"]]

QuoteBody(fees, gas) ==
    [toolDetails |-> [key |-> "across"],
     estimate |-> [feeCosts |-> fees, gasCosts |-> gas, executionDuration |-> 4,
                   toAmount |-> "998500"],
     action |-> [fromToken |-> [address |-> "0xaf88d065"]]]

QuoteBodies ==
    {QuoteBody(<<QuoteFee, QuoteLpFee>>, <<QuoteGas>>),
     QuoteBody(<<>>, <<>>),
     [toolDetails |-> [key |-> "across"], estimate |-> [toAmount |-> "998500"],
      action |-> [fromToken |-> [address |-> "0xaf88d065"]]],
     QuoteBody(<<[name |-> "LP Fee", amountUSD |-> "1.25"]>>, <<QuoteGas>>),
     [message |-> Str("No available quotes")],
     NullBody}

Rejections ==
    {RejectedWith("timeout of 10000ms exceeded"),
     RejectedByApi("Request failed with status code 404", "No available quotes")}

QuoteResponses == {Fulfilled(b) : b \in QuoteBodies} \cup Rejections

QuoteArgs ==
    {<<c, Str("opt"), f, a, t>> :
        c \in {Str("arb"), Str("Base"), Num(1), Undefined},
        f \in {Str("USDC"), Str("0xaf88d065")},
        a \in {"1000000", "25"},
        t \in {Undefined, Str("USDT")}}

BridgesBodies ==
    {[bridges |-> <<[name |-> "Across"], [name |-> "Stargate"]>>],
     [bridges |-> <<>>],
     [message |-> Str("Service unavailable")],
     NullBody}

BridgesResponses == {Fulfilled(b) : b \in BridgesBodies} \cup Rejections

TokenToolArgs ==
    {<<c, t>> : c \in {Str("arb"), Str("10"), Str("base"), Undefined},
                t \in {"USDT", "usdc", "DAI"}}

NextTools ==
    \/ \E a \in QuoteArgs : RouteCall(a[1], a[2], a[3], a[4], a[5])
    \/ \E res \in QuoteResponses : RouteSettle(res)
    \/ \E a \in TokenToolArgs : TokenCall(a[1], a[2])
    \/ \E res \in TokenResponses : TokenReturn(res)
    \/ BridgesCall
    \/ \E res \in BridgesResponses : BridgesSettle(res)

SpecTools == Init /\ [][NextTools]_vars

(***************************************************************************)
(* SpecGraph: one run of the agent graph, over the responses the model can *)
(* give: no tool_calls, an empty list, or up to MaxToolCalls tool calls.   *)
(***************************************************************************)
ToolNames ==
    {"get_bridge_route", "get_security_stats", "get_token_details",
     "get_bridge_options", "get_supported_bridges"}

ModelResponses ==
    {[type |-> "ai"]} \cup
    {[type |-> "ai", tool_calls |-> calls] : calls \in SeqsUpTo(ToolNames, MaxToolCalls)}

NextGraph ==
    \/ StartEdge
    \/ \E response \in ModelResponses : CallModel(response)
    \/ ToolNode

SpecGraph == Init /\ [][NextGraph]_vars

(***************************************************************************)
(* SpecSlug: getProtocolSlug called again and again in one process, over   *)
(* every directory of up to MaxDirLen distinct entries of a pool.          *)
(***************************************************************************)
One == {1}

Star == [slug |-> "star", name |-> "Star Protocol"]
StargateV2 == [slug |-> "stargate-v2", name |-> "StargateV2"]
HopProtocol == [slug |-> "hop-protocol", name |-> "Hop Protocol"]
Hop == [slug |-> "hop", name |-> "Hop"]
CBridge == [slug |-> "cbridge", name |-> "cBridge"]

StargateFarm == [slug |-> "stargatev2-farm", name |-> "Stargatev2 Farm"]

EntryPool == {Stargate, Star, StargateV2, StargateFarm, HopProtocol, Hop, CBridge}

NoRepeat(q) == \A a \in 1..Len(q) : \A b \in 1..Len(q) : q[a] = q[b] => a = b

Directories == {q \in SeqsUpTo(EntryPool, MaxDirLen) : NoRepeat(q)}

SlugDirBodies == {ArrayBody(q) : q \in Directories} \cup {OtherBody, NullCache}

SlugKeys == {"cbridge", "CBridge ", "amarok", "stargatev2", "hop", "Hopv2", "across"}

\* getProtocolSlug has returned slug[i] to its caller, which calls it again later
SlugReturn(i) ==
    /\ pc[i] = "slugged"
    /\ dirRequests < MaxDirRequests
    /\ pc' = [pc EXCEPT ![i] = "idle"]
    /\ bridgeName' = [bridgeName EXCEPT ![i] = ""]
    /\ slug' = [slug EXCEPT ![i] = ""]
    /\ UNCHANGED <<tool, graph, boLocals, allProtocolsCache, dirRequests, tvlRes, hacksRes, security, risk, bo>>

InitSlug ==
    /\ allProtocolsCache = NullCache
    /\ dirRequests = 0
    /\ IdleSlots(One)
    /\ bo = BoIdle
    /\ boLocals = NoLocals
    /\ tool = ToolIdle
    /\ graph = GraphStart

NextSlug ==
    \/ \E name \in SlugKeys : StartCall(1, name)
    \/ \E body \in SlugDirBodies : DirResponse(1, body)
    \/ DirFailure(1)
    \/ SlugReturn(1)

SpecSlug == InitSlug /\ [][NextSlug]_vars

(***************************************************************************)
(* SpecStats: getSecurityStats followed by calculateRiskScore, as the      *)
(* get_security_stats tool and runAgent call them, one call at a time,     *)
(* over the response shapes of the two security-data endpoints.            *)
(***************************************************************************)
StatsKeys == {"stargate", "Across", "cbridge"}

StatsDirBodies == {ArrayBody(<<Stargate, HopProtocol>>)}

NowSamples == {Now, Now + 1}

OldStargateHack ==
    [name |-> "Stargate", date |-> Now - TwoYears, classification |-> "Rugpull",
     amount |-> 500]

EdgeStargateHack ==
    [name |-> "STARGATE bridge", date |-> Now - TwoYears + 1, classification |-> "Exploit",
     amount |-> 70000]

AcrossHack ==
    [name |-> "Across Protocol", date |-> Now - 3600, classification |-> "Exploit",
     amount |-> 42]

StatsTvlBodies ==
    {[name |-> "p", tvl |-> [kind |-> "array", v |-> <<5000000, 7500000>>]],
     [name |-> "p", tvl |-> [kind |-> "array", v |-> <<9994999>>]],
     [name |-> "p", tvl |-> [kind |-> "array", v |-> <<>>]],
     [name |-> "p", tvl |-> [kind |-> "array", v |-> <<400000000>>],
                    currentChainTvls |-> <<1, 2>>],
     [name |-> "p", tvl |-> [kind |-> "number", v |-> <<9999999>>],
                    currentChainTvls |-> <<2000000, 7999999>>],
     [name |-> "p", tvl |-> [kind |-> "number", v |-> <<1234567>>]],
     [name |-> "p", tvl |-> [kind |-> "number", v |-> <<0>>],
                    currentChainTvls |-> <<30000000>>],
     [name |-> "p", currentChainTvls |-> <<30000000, 1000000>>],
     [name |-> "p"],
     NullBody}

StatsTvlResponses == {Rejected} \cup {Fulfilled(b) : b \in StatsTvlBodies}

StatsHackResponses ==
    {Rejected,
     Fulfilled(NotAnArray),
     Fulfilled([kind |-> "array", items |-> <<>>]),
     Fulfilled([kind |-> "array", items |-> <<OldStargateHack, AcrossHack>>]),
     Fulfilled([kind |-> "array", items |-> <<EdgeStargateHack, StargateHack, AcrossHack>>])}

\* The caller is done with call i and calls getSecurityStats again later
NextCall(i) ==
    /\ pc[i] = "done"
    /\ dirRequests < MaxDirRequests
    /\ pc' = [pc EXCEPT ![i] = "idle"]
    /\ bridgeName' = [bridgeName EXCEPT ![i] = ""]
    /\ slug' = [slug EXCEPT ![i] = ""]
    /\ tvlRes' = [tvlRes EXCEPT ![i] = Pending]
    /\ hacksRes' = [hacksRes EXCEPT ![i] = Pending]
    /\ security' = [security EXCEPT ![i] = Pending]
    /\ risk' = [risk EXCEPT ![i] = Pending]
    /\ UNCHANGED <<tool, graph, boLocals, allProtocolsCache, dirRequests, bo>>

NextStats ==
    \/ \E name \in StatsKeys : StartCall(1, name)
    \/ \E body \in StatsDirBodies : DirResponse(1, body)
    \/ DirFailure(1)
    \/ \E res \in StatsTvlResponses : TvlSettle(1, res)
    \/ \E res \in StatsHackResponses : HacksSettle(1, res)
    \/ \E now \in NowSamples : StatsReturn(1, now)
    \/ Score(1)
    \/ NextCall(1)

SpecStats == InitSlug /\ [][NextStats]_vars

(***************************************************************************)
(* Claims about getBridgeOptions and the shared cache, checked under Spec. *)
(***************************************************************************)
\* C1: once the provider has returned N routes, a failure of one route's security
\* assessment does not abort the comparison: getBridgeOptions returns success
\* with N options.
C1_AllRoutesReturned ==
    (bo.pc = "returned" /\ Len(bo.keys) > 0) =>
        /\ bo.result.success
        /\ Len(bo.result.options) = Len(bo.keys)

\* C6 as claimed: over any interleaving of getProtocolSlug calls the
\* protocol-directory endpoint is requested at most once.
C6_AtMostOneRequest == dirRequests <= 1

\* C6 amended: every step that sends directory requests sends one per
\* getProtocolSlug call that reaches its cache check in that step, and sends them
\* only while the cache is empty; the number of requests is not bounded by one.
C6_RequestsOnlyWhileCacheEmpty ==
    [][/\ dirRequests' - dirRequests =
            Cardinality({i \in DOMAIN pc : pc[i] = "idle" /\ pc'[i] = "awaitDir"})
       /\ dirRequests' > dirRequests => allProtocolsCache.kind = "null"]_vars

C6_Witness ==
    /\ dirRequests = 2
    /\ bo.pc = "awaitAll"
    /\ pc[1] = "awaitDir" /\ pc[2] = "awaitDir"
    /\ allProtocolsCache.kind = "null"

(***************************************************************************)
(* Claims about getSecurityStats, checked under SpecStats.                 *)
(***************************************************************************)
Returned(i) == pc[i] = "stats"

\* C7: when the TVL lookup and the incident lookup both fail, the SecurityStats
\* returned carries an unavailable marker and no invented zero: no incident count
\* of 0.
C7_BothFailedMarkedUnavailable ==
    \A i \in DOMAIN pc :
        (Returned(i) /\ tvlRes[i] = Rejected /\ hacksRes[i] = Rejected) =>
            /\ Has(security[i], "error") \/ security[i].tvl = "Unknown"
            /\ ~(Has(security[i], "recent_hack_count") /\ security[i].recent_hack_count = 0)

HasSeries(data) == Has(data, "tvl") /\ data.tvl.kind = "array"

HasBreakdown(data) == Has(data, "currentChainTvls")

\* C8: the TVL reported is the sum of the time-series list when the response has
\* one, the sum of the per-chain breakdown when it has that, and "Unknown" when it
\* has neither; a response with neither is never reported as an amount.
C8_TvlShapes ==
    \A i \in DOMAIN pc :
        (Returned(i) /\ tvlRes[i].status = "fulfilled" /\ Has(security[i], "tvl")) =>
            LET data == tvlRes[i].data
            IN  /\ HasSeries(data) => security[i].tvl = FormatTvl(Sum(data.tvl.v))
                /\ (~HasSeries(data) /\ HasBreakdown(data))
                      => security[i].tvl = FormatTvl(Sum(data.currentChainTvls))
                /\ (~HasSeries(data) /\ ~HasBreakdown(data))
                      => security[i].tvl = "Unknown"

\* C14: the options of a successful comparison are in the provider's ranking
\* order, one per provider route at the same position and carrying the risk of
\* that route's own assessment, in whatever order the assessments completed.
C14_ProviderOrder ==
    (bo.pc = "returned" /\ bo.result.success) =>
        /\ Len(bo.result.options) = Len(bo.routes)
        /\ \A k \in 1..Len(bo.routes) :
              /\ bo.result.options[k].bridge = bo.routes[k].key
              /\ bo.result.options[k].amountOut = bo.routes[k].toAmount
              /\ bo.result.options[k].riskScore = risk[k].score

\* the riskier route is ranked first by the provider and stays first
C14_Witness ==
    /\ bo.pc = "returned"
    /\ bo.result.success
    /\ bo.keys = <<"stargatev2", "cbridge">>
    /\ bo.result.options[1].bridge = "stargatev2"
    /\ bo.result.options[1].riskScore = 0
    /\ bo.result.options[2].riskScore = 100

(***************************************************************************)
(* Claims about the fee subtotals, checked under SpecFees.                 *)
(***************************************************************************)
\* a "d.dddd" string of an option, in units of 10^-AmountScale
ReportedAmount(str) == ParseFloat(str).m * Pow10(AmountScale - ParseFloat(str).scale)

AbsDiff(a, b) == IF a >= b THEN a - b ELSE b - a

\* every amount of the fee list has at most four decimals
FourDecimals(fees) == \A k \in 1..Len(fees) : AmountOf(fees[k]) % 100 = 0

\* C13 as claimed: for every fee list of a route, the empty one included,
\* protocolFeeUSD + aggregatorFeeUSD equals the sum of the USD amounts of all
\* fee line items.
C13_SubtotalsAddUp ==
    (bo.pc = "returned" /\ bo.result.success) =>
        \A k \in 1..Len(bo.routes) :
            ReportedAmount(bo.result.options[k].protocolFeeUSD)
                + ReportedAmount(bo.result.options[k].aggregatorFeeUSD)
            = ReduceFees(FeeCosts(bo.routes[k].estimate))

\* C13 amended: each subtotal is reported rounded to four decimals, so
\* protocolFeeUSD + aggregatorFeeUSD is within 0.0001 of the sum of the USD
\* amounts of all fee line items, and equal to it when every amount has at most
\* four decimals; both subtotals are "0.0000" for an empty or missing fee list.
C13_SubtotalsAddUpRounded ==
    (bo.pc = "returned" /\ bo.result.success) =>
        \A k \in 1..Len(bo.routes) :
            LET fees == FeeCosts(bo.routes[k].estimate)
                reported == ReportedAmount(bo.result.options[k].protocolFeeUSD)
                            + ReportedAmount(bo.result.options[k].aggregatorFeeUSD)
            IN  /\ AbsDiff(reported, ReduceFees(fees)) < 100
                /\ FourDecimals(fees) => reported = ReduceFees(fees)
                /\ Len(fees) = 0 =>
                      /\ bo.result.options[k].protocolFeeUSD = "0.0000"
                      /\ bo.result.options[k].aggregatorFeeUSD = "0.0000"

C13_Witness ==
    /\ bo.pc = "returned"
    /\ bo.result.success
    /\ FeeCosts(bo.routes[1].estimate) = <<LifiFee, RelayerFee>>
    /\ bo.result.options[1].aggregatorFeeUSD = "0.2500"
    /\ bo.result.options[1].protocolFeeUSD = "1.2500"

\* The incidents of `items` whose name contains s, letter case ignored, and that
\* are dated within the two years before `now`
RecentNamed(items, s, now) ==
    {k \in 1..Len(items) : /\ Includes(ToLowerCase(items[k].name), ToLowerCase(s))
                           /\ items[k].date > now - TwoYears}

HasIncidentList(res) == res.status = "fulfilled" /\ res.data.kind = "array"

\* C18: the two lookups of one getSecurityStats call complete independently.
\* When the TVL lookup fails and the incident lookup succeeds, the call returns
\* TVL "Unknown" together with the incidents filtered from the incident list;
\* when the incident lookup fails and the TVL lookup succeeds, it returns the
\* TVL of the response; in neither case an error result.
C18_IndependentCompletion ==
    \A i \in DOMAIN pc :
        Returned(i) =>
            /\ (tvlRes[i] = Rejected /\ HasIncidentList(hacksRes[i])) =>
                  /\ ~Has(security[i], "error")
                  /\ security[i].tvl = "Unknown"
                  /\ Len(security[i].hack_details) = security[i].recent_hack_count
                  /\ slug[i] = ToLowerCase(slug[i]) =>
                        \E now \in NowSamples :
                            security[i].recent_hack_count
                            = Cardinality(RecentNamed(hacksRes[i].data.items, slug[i], now))
            /\ (hacksRes[i] = Rejected /\ tvlRes[i].status = "fulfilled"
                  /\ ~Has(tvlRes[i].data, "null")) =>
                  /\ ~Has(security[i], "error")
                  /\ security[i].hack_details = <<>>
                  /\ HasSeries(tvlRes[i].data) =>
                        security[i].tvl = FormatTvl(Sum(tvlRes[i].data.tvl.v))

C18_Witness ==
    /\ Returned(1)
    /\ tvlRes[1] = Rejected
    /\ hacksRes[1] = Fulfilled([kind |-> "array",
                                items |-> <<EdgeStargateHack, StargateHack, AcrossHack>>])
    /\ slug[1] = "stargate"
    /\ security[1].tvl = "Unknown"
    /\ security[1].recent_hack_count = 2

\* C19: the incidents counted are exactly those of the incident history whose
\* name contains the resolved slug, letter case ignored, and whose date lies
\* within the last two years before the call; no older incident is counted.
C19_ExactIncidentFilter ==
    \A i \in DOMAIN pc :
        (Returned(i) /\ HasIncidentList(hacksRes[i]) /\ ~Has(security[i], "error")) =>
            \E now \in NowSamples :
                security[i].recent_hack_count
                = Cardinality(RecentNamed(hacksRes[i].data.items, slug[i], now))

\* The TVL response gives a numeric TVL: a series, or a non-zero total with the
\* per-chain breakdown
HasNumericTvl(res) ==
    /\ res.status = "fulfilled"
    /\ ~Has(res.data, "null")
    /\ HasSeries(res.data) \/ (TvlTruthy(res.data) /\ HasBreakdown(res.data))

NumericTvl(res) ==
    IF HasSeries(res.data) THEN Sum(res.data.tvl.v) ELSE Sum(res.data.currentChainTvls)

\* C23: end to end, a protocol with zero recent incidents and a numeric TVL below
\* 10,000,000 USD is scored 80, and one with a numeric TVL of at least
\* 10,000,000 USD is scored 100.
C23_ThresholdOnNumericTvl ==
    [][\A i \in DOMAIN pc :
          (pc[i] = "stats" /\ pc'[i] = "done" /\ HasNumericTvl(tvlRes[i])
              /\ Has(security[i], "recent_hack_count")
              /\ security[i].recent_hack_count = 0) =>
              risk'[i].score = IF NumericTvl(tvlRes[i]) < 10000000 THEN 80 ELSE 100]_vars

\* C25: calculateRiskScore returns an assessment, without throwing, for every
\* value getSecurityStats returns, the error result included.
C25_ScoreNeverThrows ==
    \A i \in DOMAIN pc :
        pc[i] = "done" =>
            /\ ~IsThrown(risk[i])
            /\ Has(risk[i], "score")
            /\ Has(risk[i], "verdict")

(***************************************************************************)
(* Claims about the start of getBridgeOptions, checked under SpecCompare.  *)
(***************************************************************************)
Called == bo.pc # "start"

RequestSent == Called /\ boLocals.params # Pending

SettledLookups ==
    {k \in 1..Len(boLocals.lookups) : boLocals.lookups[k].details # Pending}

FailedLookups == {k \in SettledLookups : ~boLocals.lookups[k].details.success}

LookupsOf(which) ==
    {k \in 1..Len(boLocals.lookups) : boLocals.lookups[k].which = which}

\* C15 as claimed: a failed resolution of fromToken or toToken aborts the whole
\* comparison: no route request is sent and the call returns an error result.
C15_AnyFailureAborts ==
    FailedLookups # {} =>
        /\ bo.pc = "returned"
        /\ ~bo.result.success
        /\ ~RequestSent

\* C15 amended: a failed route fetch, or a missing fromToken, aborts the
\* comparison with a single error result that carries a message and no route
\* options.  A failed token resolution does not abort it: the call goes on to its
\* next step and sends the symbol to the route provider as it was given.
C15_ResolutionFailureGoesOn ==
    /\ (Called /\ bo.pc = "returned" /\ ~bo.result.success) =>
          /\ ~Has(bo.result, "options")
          /\ bo.result.error # ""
    /\ (Called /\ boLocals.fromTokenRaw = Undefined) =>
          /\ bo.pc = "returned"
          /\ ~bo.result.success
          /\ ~RequestSent
          /\ boLocals.lookups = <<>>
    /\ \A k \in FailedLookups :
          LET lookup == boLocals.lookups[k]
          IN  /\ lookup.which = "from" =>
                    /\ Len(boLocals.lookups) > k \/ RequestSent
                    /\ boLocals.fromTokenAddr = Str(lookup.token)
              /\ lookup.which = "to" =>
                    /\ RequestSent
                    /\ boLocals.params.toTokenAddress = Str(lookup.token)

\* the resolution of "DAI" failed, and the comparison returned an option
C15_Witness ==
    /\ RequestSent
    /\ FailedLookups # {}
    /\ boLocals.fromTokenRaw = Str("DAI")
    /\ boLocals.params.fromTokenAddress = Str("DAI")
    /\ bo.pc = "returned"
    /\ bo.result.success
    /\ Len(bo.result.options) = 1

IsAddress(v) == v.t = "string" /\ Len(v.s) >= 2 /\ SubSeq(v.s, 1, 2) = "0x"

\* the toToken of the call: toTokenRaw, or fromTokenRaw when it is missing
EffectiveToToken ==
    IF boLocals.toTokenRaw = Undefined THEN boLocals.fromTokenRaw ELSE boLocals.toTokenRaw

\* C16: a fromToken or toToken that starts with "0x" never triggers a token
\* lookup and is sent to the route provider unchanged; a token that does not
\* start with "0x" is looked up once, each of the two on its own.
C16_AddressesSkipLookup ==
    (Called /\ boLocals.fromTokenRaw # Undefined) =>
        /\ IsAddress(boLocals.fromTokenRaw) =>
              /\ LookupsOf("from") = {}
              /\ RequestSent => boLocals.params.fromTokenAddress = boLocals.fromTokenRaw
        /\ IsAddress(EffectiveToToken) =>
              /\ LookupsOf("to") = {}
              /\ RequestSent => boLocals.params.toTokenAddress = EffectiveToToken
        /\ (RequestSent /\ ~IsAddress(boLocals.fromTokenRaw)) =>
              Cardinality(LookupsOf("from")) = 1
        /\ (RequestSent /\ ~IsAddress(EffectiveToToken)) =>
              Cardinality(LookupsOf("to")) = 1

C16_Witness ==
    /\ RequestSent
    /\ boLocals.fromTokenRaw = Str("0xaf88d065")
    /\ boLocals.toTokenRaw = Str("USDT")
    /\ Len(boLocals.lookups) = 1
    /\ boLocals.lookups[1].which = "to"
    /\ boLocals.params.fromTokenAddress = Str("0xaf88d065")

\* The primary lookup succeeded: a response with the token's fields
PrimarySucceeded(res) ==
    /\ res.status = "fulfilled"
    /\ \A f \in {"symbol", "address", "decimals"} : Has(res.data, f)

\* C17: when the primary lookup succeeds getTokenDetails returns address,
\* decimals and price as reported.  When it fails (timeout, error status,
\* malformed body) it returns the fallback entry of (chain id, upper-cased
\* symbol) with priceUSD "Unknown (Fallback)" if the table has one, and otherwise
\* an error result with the upstream message.
C17_TwoTier ==
    \A k \in SettledLookups :
        LET lookup == boLocals.lookups[k]
            res == lookup.res
            details == lookup.details
            sym == ToUpperCase(lookup.token)
        IN  IF PrimarySucceeded(res)
            THEN /\ details.success
                 /\ details.address = res.data.address
                 /\ details.decimals = res.data.decimals
                 /\ details.priceUSD = Field(res.data, "priceUSD")
            ELSE IF HasFallback(lookup.chain, lookup.token)
            THEN /\ details.success
                 /\ details.symbol = Str(sym)
                 /\ details.address = Str(FALLBACK_TOKENS[PropertyKey(lookup.chain)][sym].address)
                 /\ details.priceUSD = Str("Unknown (Fallback)")
            ELSE /\ ~details.success
                 /\ res.status = "rejected" =>
                       details.error = IF Has(res, "apiMessage") THEN res.apiMessage
                                       ELSE res.message

\* a is an alias of CHAIN_MAP, in any letter case and with spaces around it
KnownAlias(a) == a.t = "string" /\ Trim(ToLowerCase(a.s)) \in DOMAIN CHAIN_MAP

\* C20: for every known chain alias, normalizing the normalized chain again (as
\* getTokenDetails does with the chain getBridgeOptions hands it) returns it
\* unchanged; the normalized chain is a number or the string "sol".
C20_NormalizeChainIdempotent ==
    \A k \in 1..Len(boLocals.lookups) :
        LET lookup == boLocals.lookups[k]
            raw == IF lookup.which = "from" THEN boLocals.fromChainRaw
                   ELSE boLocals.toChainRaw
            once == IF lookup.which = "from" THEN boLocals.fromChain ELSE boLocals.toChain
        IN  KnownAlias(raw) =>
                /\ lookup.chain = once
                /\ once.t = "number" \/ once = Str("sol")

C20_Witness ==
    /\ Called
    /\ boLocals.fromChainRaw = Str("Arbitrum")
    /\ boLocals.fromChain = Num(42161)
    /\ Len(boLocals.lookups) >= 1
    /\ boLocals.lookups[1].which = "from"
    /\ boLocals.lookups[1].chain = Num(42161)

\* C22: the route request carries the caller's amount verbatim as fromAmount,
\* whatever decimals the token lookups reported, and asks for a ranked set of
\* at most 3 routes.
C22_AmountVerbatim ==
    RequestSent =>
        /\ boLocals.params.fromAmount = boLocals.amountRaw
        /\ boLocals.params.options = [order |-> "RECOMMENDED", limit |-> 3]

\* the lookup of fromToken reported 18 decimals; the amount "25" is sent as it is
C22_Witness ==
    /\ RequestSent
    /\ boLocals.amountRaw = "25"
    /\ Len(boLocals.lookups) >= 1
    /\ boLocals.lookups[1].details.success
    /\ boLocals.lookups[1].details.decimals = Num(18)
    /\ boLocals.params.fromAmount = "25"

\* C24: for a missing chain (undefined, null or the empty string) normalizeChain
\* returns the canonical identifier of the primary chain, the value it returns
\* for the alias "eth".
C24_AbsentChainIsCanonicalEth ==
    Called =>
        /\ Falsy(boLocals.fromChainRaw) => boLocals.fromChain = CHAIN_MAP["eth"]
        /\ Falsy(boLocals.toChainRaw) => boLocals.toChain = CHAIN_MAP["eth"]

(***************************************************************************)
(* Claims about the tools called on their own, checked under SpecTools.    *)
(***************************************************************************)
\* The body has the fields the function `name` reads from it
ExpectedShape(name, data) ==
    /\ ~Has(data, "null")
    /\ name = "getRoute" =>
          /\ Has(data, "toolDetails") /\ Has(data, "estimate") /\ Has(data, "action")
          /\ \A k \in 1..Len(FeeCosts(data.estimate)) :
                Has(FeeCosts(data.estimate)[k], "token")
    /\ name = "getTokenDetails" => Has(data, "address") /\ Has(data, "decimals")
    /\ name = "getSupportedBridges" => Has(data, "bridges")

\* The upstream request failed: it was rejected (timeout, error status), or its
\* response has an unexpected shape
UpstreamFailed(name, res) ==
    res.status = "rejected" \/ ~ExpectedShape(name, res.data)

\* C21: on an upstream failure a tool returns a structured result with
\* success = false and an error message, the upstream message when there is
\* one (getTokenDetails: unless its fallback table has the token).
C21_FailureIsStructured ==
    (tool.pc = "returned" /\ UpstreamFailed(tool.name, tool.res)
        /\ ~(tool.name = "getTokenDetails"
             /\ HasFallback(tool.params.chain, tool.params.token))) =>
        /\ ~tool.result.success
        /\ tool.result.error # ""
        /\ (tool.res.status = "rejected" /\ Has(tool.res, "apiMessage")) =>
              tool.result.error = tool.res.apiMessage

(***************************************************************************)
(* Claims about the agent graph, checked under SpecGraph.                  *)
(***************************************************************************)
\* The last message of g has at least one tool call
LastHasToolCalls(g) ==
    LET lastMessage == g.messages[Len(g.messages)]
    IN  Has(lastMessage, "tool_calls") /\ lastMessage.tool_calls # <<>>

\* C27: a run starts at the agent node; after an agent step the tools node
\* is next iff the last message has at least one tool call, otherwise the run
\* ends; a tools step is followed by an agent step; so a run ends only
\* directly after an agent step whose message has no tool calls.
C27_GraphRouting ==
    [][/\ graph.node = "__start__" => graph'.node = "agent"
       /\ graph.node = "agent" =>
             /\ graph'.ran = "agent"
             /\ LastHasToolCalls(graph') <=> graph'.node = "tools"
             /\ ~LastHasToolCalls(graph') <=> graph'.node = "__end__"
       /\ graph.node = "tools" => graph'.ran = "tools" /\ graph'.node = "agent"
       /\ graph'.node = "__end__" =>
             graph.node = "agent" /\ graph'.ran = "agent" /\ ~LastHasToolCalls(graph')]_graph

\* A run that called tools, went back to the agent and ended on a message
\* whose tool_calls is an empty list
C27_Witness ==
    /\ graph.node = "__end__"
    /\ graph.ran = "agent"
    /\ \E k \in 1..Len(graph.messages) : graph.messages[k].type = "tool"
    /\ Has(graph.messages[Len(graph.messages)], "tool_calls")
    /\ ~LastHasToolCalls(graph)

(***************************************************************************)
(* Claims about getProtocolSlug, checked under SpecSlug.                   *)
(***************************************************************************)
OverrideSlugOf(key) ==
    CASE key = "cbridge" -> "celer-network"
      [] key = "amarok" -> "connext"
      [] key = "circle" -> "cctp"

\* C9: a bridge key of the override table resolves to its override slug whatever
\* the cache holds, and the call never waits for a directory request.
C9_OverrideWins ==
    \A i \in DOMAIN pc :
        (pc[i] # "idle" /\ Trim(ToLowerCase(bridgeName[i])) \in {"cbridge", "amarok", "circle"})
            => /\ pc[i] # "awaitDir"
               /\ slug[i] = OverrideSlugOf(Trim(ToLowerCase(bridgeName[i])))

C9_Witness ==
    /\ pc[1] = "slugged"
    /\ bridgeName[1] = "cbridge"
    /\ allProtocolsCache.kind = "array"
    /\ \E k \in 1..Len(allProtocolsCache.items) : allProtocolsCache.items[k].slug = "cbridge"
    /\ slug[1] = "celer-network"

HasStargate(cache) ==
    /\ cache.kind = "array"
    /\ \E k \in 1..Len(cache.items) : cache.items[k].slug = "stargate"

\* C10 as claimed: for bridge key "stargatev2" and every directory with an entry of
\* slug "stargate", whatever its other entries and their order, the result is
\* "stargate".
C10_AnyDirectoryWithStargate ==
    \A i \in DOMAIN pc :
        (pc[i] = "slugged" /\ bridgeName[i] = "stargatev2" /\ HasStargate(allProtocolsCache))
            => slug[i] = "stargate"

\* Entry p equals the key: by slug or by lower-cased display name
EqualsKey(p, key) == p.slug = key \/ ToLowerCase(p.name) = key

\* Entry p overlaps the key: its slug contains the key or is contained in it, or
\* its lower-cased display name contains the key
OverlapsKey(p, key) ==
    \/ Includes(p.slug, key)
    \/ Includes(key, p.slug)
    \/ Includes(ToLowerCase(p.name), key)

\* No entry with another slug equals the key, and no entry in front of the first
\* "stargate" entry overlaps the key
StargateComesFirst(entries) ==
    /\ \A k \in 1..Len(entries) :
          EqualsKey(entries[k], "stargatev2") => entries[k].slug = "stargate"
    /\ \E k \in 1..Len(entries) :
          /\ entries[k].slug = "stargate"
          /\ \A j \in 1..(k - 1) : ~OverlapsKey(entries[j], "stargatev2")

\* C10 amended: for bridge key "stargatev2" and a directory with an entry of slug
\* "stargate", the result is "stargate" when no entry with another slug equals
\* the key and no entry in front of the "stargate" entry overlaps the key.
C10_StargateWhenFirstMatch ==
    \A i \in DOMAIN pc :
        (pc[i] = "slugged" /\ bridgeName[i] = "stargatev2" /\ HasStargate(allProtocolsCache)
            /\ StargateComesFirst(allProtocolsCache.items))
            => slug[i] = "stargate"

C10_Witness ==
    /\ pc[1] = "slugged"
    /\ bridgeName[1] = "stargatev2"
    /\ allProtocolsCache = ArrayBody(<<HopProtocol, Stargate, Star>>)
    /\ slug[1] = "stargate"

\* The positions of the entries that equal the key, and of those that overlap it
EqualPositions(entries, key) == {k \in 1..Len(entries) : EqualsKey(entries[k], key)}

OverlapPositions(entries, key) == {k \in 1..Len(entries) : OverlapsKey(entries[k], key)}

\* C11: the rules apply in order.  When some directory entry equals the key (by
\* slug or lower-cased display name) the result is the slug of the first such
\* entry, even when an entry that only overlaps the key comes earlier; when none
\* equals it and some entry overlaps it, the result is the slug of the first
\* overlapping entry, whatever the version-stripped key would match.
C11_RuleOrder ==
    \A i \in DOMAIN pc :
        (pc[i] = "slugged" /\ allProtocolsCache.kind = "array"
            /\ Trim(ToLowerCase(bridgeName[i])) \notin {"cbridge", "amarok", "circle"}) =>
            LET key == Trim(ToLowerCase(bridgeName[i]))
                entries == allProtocolsCache.items
                equal == EqualPositions(entries, key)
                overlap == OverlapPositions(entries, key)
            IN  /\ equal # {} =>
                      \E k \in equal : /\ \A j \in equal : k <= j
                                       /\ slug[i] = entries[k].slug
                /\ (equal = {} /\ overlap # {}) =>
                      \E k \in overlap : /\ \A j \in overlap : k <= j
                                         /\ slug[i] = entries[k].slug

\* key "hop": "hop-protocol" overlaps it and comes first, "hop" equals it
C11_Witness ==
    /\ pc[1] = "slugged"
    /\ bridgeName[1] = "hop"
    /\ allProtocolsCache = ArrayBody(<<HopProtocol, Hop>>)
    /\ slug[1] = "hop"

\* No rule of the search matches the key in the directory
NoRuleMatches(entries, key) ==
    /\ EqualPositions(entries, key) = {}
    /\ OverlapPositions(entries, key) = {}
    /\ \A k \in 1..Len(entries) : ~Includes(entries[k].slug, StripVersion(key))

\* C12: getProtocolSlug always returns a slug.  When the directory could not be
\* fetched it returns the override slug of the key if it has one and otherwise
\* the bridge key exactly as it was passed; when the directory was fetched and
\* no rule matches, it returns the bridge key exactly as it was passed.
C12_PassThroughUnchanged ==
    \A i \in DOMAIN pc :
        pc[i] = "slugged" =>
            LET key == Trim(ToLowerCase(bridgeName[i]))
                overridden == key \in {"cbridge", "amarok", "circle"}
            IN  /\ slug[i] # ""
                /\ overridden => slug[i] = OverrideSlugOf(key)
                /\ (~overridden /\ allProtocolsCache.kind # "array")
                      => slug[i] = bridgeName[i]
                /\ (~overridden /\ allProtocolsCache.kind = "array"
                       /\ NoRuleMatches(allProtocolsCache.items, key))
                      => slug[i] = bridgeName[i]

\* C26: a call starts a directory fetch only while the cache is empty; a fetch
\* that fails or delivers no directory leaves the cache empty, and the next call
\* without an override fetches again; once a directory is cached it stays, no
\* call fetches again, and every call resolves against it.
C26_PopulateOnce ==
    [][/\ dirRequests' > dirRequests => allProtocolsCache.kind = "null"
       /\ (pc[1] = "awaitDir" /\ pc'[1] = "slugged") =>
             allProtocolsCache'.kind \in {"array", "null"}
       /\ (pc[1] = "idle" /\ pc'[1] # "idle" /\ allProtocolsCache.kind = "null"
             /\ Trim(ToLowerCase(bridgeName'[1])) \notin {"cbridge", "amarok", "circle"}) =>
             /\ pc'[1] = "awaitDir"
             /\ dirRequests' = dirRequests + 1
       /\ allProtocolsCache.kind = "array" =>
             /\ allProtocolsCache' = allProtocolsCache
             /\ dirRequests' = dirRequests]_vars

(***************************************************************************)
(* SpecScore: calculateRiskScore as a pure function.  Two independent      *)
(* calls, each on any SecurityStats-shaped input: TVL a formatted amount,  *)
(* "Unknown" or missing; the incident count a number or missing.           *)
(***************************************************************************)
ScoreCalls == {1, 2}

\* TVL amounts in hundredths of a million USD
HundredthSamples == {0, 250, 999, 1000, 1250, 45000}

LowTvlStrings == {TvlString(h) : h \in {x \in HundredthSamples : x < 1000}}
HighTvlStrings == {TvlString(h) : h \in {x \in HundredthSamples : x >= 1000}}
TvlStrings == LowTvlStrings \cup HighTvlStrings \cup {"Unknown"}

ScoreInputs ==
    {[bridge |-> "across", tvl |-> t, recent_hack_count |-> n] :
        t \in TvlStrings, n \in 0..MaxHackCount}
    \cup {[bridge |-> "across", recent_hack_count |-> n] : n \in 0..MaxHackCount}
    \cup {[bridge |-> "across", tvl |-> t] : t \in TvlStrings}
    \cup {[bridge |-> "across", error |-> "Security data unavailable"]}

InitScore ==
    /\ allProtocolsCache = <<>>
    /\ dirRequests = 0
    /\ pc = [i \in ScoreCalls |-> "stats"]
    /\ bridgeName = [i \in ScoreCalls |-> "across"]
    /\ slug = [i \in ScoreCalls |-> "across"]
    /\ tvlRes = [i \in ScoreCalls |-> Pending]
    /\ hacksRes = [i \in ScoreCalls |-> Pending]
    /\ security \in [ScoreCalls -> ScoreInputs]
    /\ risk = [i \in ScoreCalls |-> Pending]
    /\ bo = BoIdle
    /\ boLocals = NoLocals
    /\ tool = ToolIdle
    /\ graph = GraphStart

NextScore == \E i \in ScoreCalls : Score(i)

SpecScore == InitScore /\ [][NextScore]_vars

(***************************************************************************)
(* Claims about calculateRiskScore, checked under SpecScore.               *)
(***************************************************************************)
Scored(i) == pc[i] = "done" /\ ~IsThrown(risk[i])

NoIncidents(i) ==
    Has(security[i], "recent_hack_count") /\ security[i].recent_hack_count = 0

TvlIn(i, S) == Has(security[i], "tvl") /\ security[i].tvl \in S

\* C2 as claimed: with zero recent incidents, a known TVL >= $10M scores no lower
\* than an unknown TVL, which scores no lower than a known TVL < $10M.
C2_MonotoneAsClaimed ==
    \A i \in DOMAIN pc : \A j \in DOMAIN pc :
        (Scored(i) /\ Scored(j) /\ NoIncidents(i) /\ NoIncidents(j)) =>
            /\ (TvlIn(i, HighTvlStrings) /\ TvlIn(j, {"Unknown"}))
                   => risk[i].score >= risk[j].score
            /\ (TvlIn(i, {"Unknown"}) /\ TvlIn(j, LowTvlStrings))
                   => risk[i].score >= risk[j].score

\* C2 amended: with zero recent incidents, a known TVL >= $10M scores no lower
\* than a known TVL < $10M, which scores no lower than an unknown TVL.
C2_MonotoneAmended ==
    \A i \in DOMAIN pc : \A j \in DOMAIN pc :
        (Scored(i) /\ Scored(j) /\ NoIncidents(i) /\ NoIncidents(j)) =>
            /\ (TvlIn(i, HighTvlStrings) /\ TvlIn(j, LowTvlStrings))
                   => risk[i].score >= risk[j].score
            /\ (TvlIn(i, LowTvlStrings) /\ TvlIn(j, {"Unknown"}))
                   => risk[i].score >= risk[j].score

C2_Witness ==
    /\ Scored(1) /\ Scored(2) /\ NoIncidents(1) /\ NoIncidents(2)
    /\ TvlIn(1, LowTvlStrings) /\ TvlIn(2, {"Unknown"})
    /\ risk[1].score > risk[2].score

\* C3: a recent-incident count greater than 0 gives score 0 and verdict DANGER
\* whatever the TVL field is (a formatted amount, "Unknown" or missing), and the
\* explanation is the incident statement alone, with no TVL rule in it.
C3_IncidentsShortCircuit ==
    \A i \in DOMAIN pc :
        (pc[i] = "done" /\ Has(security[i], "recent_hack_count")
            /\ security[i].recent_hack_count > 0) =>
            /\ ~IsThrown(risk[i])
            /\ risk[i].score = 0
            /\ risk[i].verdict = "DANGER"
            /\ risk[i].explanation =
                   "DANGER: Protocol has " \o IntToString(security[i].recent_hack_count)
                   \o " recent hacks. Immediate risk."

C3_Witness ==
    /\ pc[1] = "done" /\ pc[2] = "done"
    /\ security[1] = [bridge |-> "across", recent_hack_count |-> 2]
    /\ security[2] = [bridge |-> "across", tvl |-> "Unknown", recent_hack_count |-> 1]
    /\ risk[1].score = 0 /\ risk[2].verdict = "DANGER"

\* C4: every RiskAssessment returned has an integer score in 0..100 and the verdict
\* of that score: DANGER iff score < 40, CAUTION iff 40 <= score < 80, SECURE iff
\* score >= 80.
C4_VerdictMatchesScore ==
    \A i \in DOMAIN pc :
        Scored(i) =>
            /\ risk[i].score \in 0..100
            /\ (risk[i].verdict = "DANGER") <=> (risk[i].score < 40)
            /\ (risk[i].verdict = "CAUTION") <=> (40 <= risk[i].score /\ risk[i].score < 80)
            /\ (risk[i].verdict = "SECURE") <=> (risk[i].score >= 80)

C4_Witness ==
    /\ Scored(1) /\ risk[1].score = 80 /\ risk[1].verdict = "SECURE"
    /\ Scored(2) /\ risk[2].score = 70 /\ risk[2].verdict = "CAUTION"

\* C5: unknown TVL and no recent incidents give score 70 and verdict CAUTION, and
\* the explanation records that TVL data is unavailable.
C5_UnknownTvlScores70 ==
    \A i \in DOMAIN pc :
        (pc[i] = "done" /\ NoIncidents(i) /\ TvlIn(i, {"Unknown"})) =>
            /\ ~IsThrown(risk[i])
            /\ risk[i].score = 70
            /\ risk[i].verdict = "CAUTION"
            /\ Includes(risk[i].explanation, "TVL data unavailable")

C5_Witness ==
    /\ pc[1] = "done" /\ NoIncidents(1) /\ TvlIn(1, {"Unknown"})
    /\ risk[1].score = 70

====
